---- MODULE Spec2Model ----
(***************************************************************************)
(* Model of the tree projection engine of neofs-s3-gw:                     *)
(*   - the path encoding of object keys (pathFromName, TreeNode.FileName), *)
(*   - layer.ListObjectVersions (sort, cursor, delimiter collapse, pages), *)
(*   - the tree client's multipart and version operations over the tree    *)
(*     backend (AddPart, CreateMultipartUpload, AddVersion, ...),          *)
(*   - the listing of the versions under a prefix, the tag and lock        *)
(*     sidecars of a version, and the singletons of the system tree.       *)
(*                                                                         *)
(* Go strings are modelled as sequences of one-character strings, so that  *)
(* splitting, joining, prefix tests and lexicographic comparison are       *)
(* computed the way the code computes them.                                *)
(***************************************************************************)
EXTENDS Integers, Sequences, FiniteSets, TLC

VARIABLES
    \* ---- path encoding (SpecPath)
    key,        \* the object key handed to pathFromName
    path,       \* the path pathFromName returned for it
    \* ---- ListObjectVersions (SpecList)
    stored,     \* the versions stored in the bucket (set of version records)
    req,        \* parameters of the last ListObjectVersions call
    res,        \* result of the last ListObjectVersions call
    acc,        \* entries of the pages fetched so far by the paging client
    pc,         \* "idle" | "listed" | "paging" | "done": the listing client
    \* ---- tree client over the tree backend (Spec, SpecMultipart)
    trees,      \* treeID -> set of nodes [id, parent, ts, meta]
    clock,      \* backend counter: source of NodeIds and Timestamps
    ret,        \* what the last tree-client call returned
    parts,      \* history: per (root, Number) the AddPart calls made so far
    unv,        \* history: the current run of unversioned AddVersion calls
    inflight,   \* task -> the PutObjectTagging call it is in the middle of
    hist,       \* history: whether calls overlapped, how locks were put,
                \* what each singleton was first and last put with,
                \* the uploads created, the parts stored
    \* ---- credentials (SpecCreds)
    cache       \* the access box cache of cred: address -> box

pathVars == <<key, path>>
listVars == <<stored, req, res, acc, pc>>
sideVars == <<inflight, hist>>
treeVars == <<trees, clock, ret, parts, unv, inflight, hist>>
credVars == <<cache>>
vars == <<key, path, stored, req, res, acc, pc, trees, clock, ret, parts, unv,
          inflight, hist, cache>>

(***************************************************************************)
(* Strings                                                                 *)
(***************************************************************************)

\* Byte value of a character: Go compares strings byte-wise.
Ord(c) ==
    CASE c = "/" -> 47
      [] c = "<" -> 60
      [] c = ">" -> 62
      [] c = "a" -> 97
      [] c = "b" -> 98
      [] c = "c" -> 99
      [] c = "d" -> 100
      [] c = "e" -> 101
      [] c = "m" -> 109
      [] c = "p" -> 112
      [] c = "s" -> 115
      [] c = "t" -> 116
      [] c = "x" -> 120
      [] c = "y" -> 121
      [] c = "z" -> 122

\* s < t on Go strings (lexicographic on bytes).
RECURSIVE StrLess(_, _)
StrLess(s, t) ==
    IF t = <<>> THEN FALSE
    ELSE IF s = <<>> THEN TRUE
    ELSE IF Head(s) = Head(t) THEN StrLess(Tail(s), Tail(t))
    ELSE Ord(Head(s)) < Ord(Head(t))

\* s >= t on Go strings.
StrGE(s, t) == ~StrLess(s, t)

\* strings.HasPrefix(s, prefix)
HasPrefix(s, prefix) ==
    /\ Len(prefix) <= Len(s)
    /\ SubSeq(s, 1, Len(prefix)) = prefix

separator == <<"/">>
emptyFileName == <<"<", "e", "m", "p", "t", "y", ">">>

\* strings.Split(s, separator): always at least one segment.
RECURSIVE Split(_)
Split(s) ==
    IF \A i \in 1..Len(s) : s[i] # separator[1]
    THEN <<s>>
    ELSE LET i == CHOOSE i \in 1..Len(s) :
                    /\ s[i] = separator[1]
                    /\ \A j \in 1..(i - 1) : s[j] # separator[1]
         IN  <<SubSeq(s, 1, i - 1)>> \o Split(SubSeq(s, i + 1, Len(s)))

\* strings.Join(segs, separator)
RECURSIVE Join(_)
Join(segs) ==
    IF segs = <<>> THEN <<>>
    ELSE IF Len(segs) = 1 THEN segs[1]
    ELSE segs[1] \o separator \o Join(Tail(segs))

(***************************************************************************)
(* PathEngine                                                              *)
(***************************************************************************)

\* pathFromName: split on '/', the first and the last segment become the
\* marker <empty> when they are empty.
pathFromName(objectName) ==
    LET p  == Split(objectName)
        p1 == IF p[1] = <<>> THEN [p EXCEPT ![1] = emptyFileName] ELSE p
        p2 == IF p1[Len(p1)] = <<>>
              THEN [p1 EXCEPT ![Len(p1)] = emptyFileName] ELSE p1
    IN  p2

\* TreeNode.FileName: the stored FileName, with the marker decoded to "".
FileNameOf(value) == IF value = emptyFileName THEN <<>> ELSE value

\* The key read back from a path: every segment decoded by FileName and the
\* segments joined by '/' (formFilePath: parentPath + separator + fileName).
nameFromPath(p) == Join([i \in 1..Len(p) |-> FileNameOf(p[i])])

(***************************************************************************)
(* ListingEngine: layer.ListObjectVersions                                 *)
(***************************************************************************)

\* The least and the greatest element of a non-empty set of numbers.
Min(S) == CHOOSE x \in S : \A y \in S : x <= y
Max(S) == CHOOSE x \in S : \A y \in S : y <= x

\* ObjectInfo.Version(): the version id the listing reports and compares;
\* it is the version's object id.
Version(v) == v.OID

\* The common prefix a key rolls up into: the part of the key up to and
\* including the first Delimiter after Prefix, or "" when the rest of the
\* key holds no Delimiter (or no Delimiter was given).
CommonPrefixOf(name, prefix, delimiter) ==
    LET rest == SubSeq(name, Len(prefix) + 1, Len(name))
        hits == {i \in 1..Len(rest) :
                    /\ i + Len(delimiter) - 1 <= Len(rest)
                    /\ SubSeq(rest, i, i + Len(delimiter) - 1) = delimiter}
    IN  IF delimiter = <<>> \/ hits = {} THEN <<>>
        ELSE prefix \o SubSeq(rest, 1, Min(hits) + Len(delimiter) - 1)

\* getAllObjectsVersions: every stored version under Prefix (not only the
\* latest), grouped by FilePath: name -> the versions of that name.
getAllObjectsVersions(bucket, prefix, delimiter) ==
    LET under == {v \in bucket : HasPrefix(v.FilePath, prefix)}
        names == {v.FilePath : v \in under}
    IN  [name \in names |->
            {[Name           |-> v.FilePath,
              OID            |-> v.OID,
              Timestamp      |-> v.Timestamp,
              IsDeleteMarker |-> v.IsDeleteMarker,
              IsLatest       |-> FALSE,
              Dir            |-> CommonPrefixOf(v.FilePath, prefix, delimiter)]
             : v \in {w \in under : w.FilePath = name}}]

\* sort.Strings: ascending, byte-wise.
RECURSIVE SortStrings(_)
SortStrings(S) ==
    IF S = {} THEN <<>>
    ELSE LET m == CHOOSE x \in S : \A y \in S : y = x \/ StrLess(x, y)
         IN  <<m>> \o SortStrings(S \ {m})

\* A plausible slip: the comparison of the sort the other way round.
RECURSIVE sortVersionsAscending(_)
sortVersionsAscending(S) ==
    IF S = {} THEN <<>>
    ELSE LET m == CHOOSE x \in S : \A y \in S : x.Timestamp <= y.Timestamp
         IN  <<m>> \o sortVersionsAscending(S \ {m})

\* sort.Slice(sortedVersions, Timestamp[j] < Timestamp[i]): newest first.
RECURSIVE sortVersions(_)
sortVersions(S) ==
    IF S = {} THEN <<>>
    ELSE LET m == CHOOSE x \in S : \A y \in S : y.Timestamp <= x.Timestamp
         IN  <<m>> \o sortVersions(S \ {m})

\* A variant of markLatest that sets IsLatest on the last index.
markLatestOldest(sortedVersions) ==
    [i \in 1..Len(sortedVersions) |->
        [sortedVersions[i] EXCEPT !.IsLatest = (i = Len(sortedVersions))]]

\* The inner loop: IsLatest is set on index 0 of a name's sorted versions.
markLatest(sortedVersions) ==
    [i \in 1..Len(sortedVersions) |->
        [sortedVersions[i] EXCEPT !.IsLatest = (i = 1)]]

\* The outer loop: the names in ascending order, each name's versions
\* appended newest first.
RECURSIVE flatten(_, _)
flatten(versions, sortedNames) ==
    IF sortedNames = <<>> THEN <<>>
    ELSE markLatest(sortVersions(versions[Head(sortedNames)]))
            \o flatten(versions, Tail(sortedNames))

\* A plausible slip: the cursor compares with > and skips the marker item.
advanceCursorStrict(allObjects, KeyMarker, VersionIDMarker) ==
    LET hits == {i \in 1..Len(allObjects) :
                    /\ StrLess(KeyMarker, allObjects[i].Name)
                    /\ StrLess(VersionIDMarker, Version(allObjects[i]))}
    IN  IF hits = {} THEN allObjects
        ELSE SubSeq(allObjects, Min(hits), Len(allObjects))

\* The cursor loop: cut at the first item with Name >= KeyMarker and
\* Version >= VersionIDMarker; when the loop finds none, the slice is left
\* as it was.
advanceCursor(allObjects, KeyMarker, VersionIDMarker) ==
    LET hits == {i \in 1..Len(allObjects) :
                    /\ StrGE(allObjects[i].Name, KeyMarker)
                    /\ StrGE(Version(allObjects[i]), VersionIDMarker)}
    IN  IF hits = {} THEN allObjects
        ELSE SubSeq(allObjects, Min(hits), Len(allObjects))

\* The distinct values of a sequence, in the order of their first occurrence.
RECURSIVE Distinct(_)
Distinct(s) ==
    IF s = <<>> THEN <<>>
    ELSE LET rest == Distinct(SubSeq(s, 1, Len(s) - 1))
             last == s[Len(s)]
         IN  IF \E i \in 1..Len(rest) : rest[i] = last
             THEN rest ELSE Append(rest, last)

\* triageExtendedObjects: the versions that roll up into a common prefix go
\* to CommonPrefixes, the others stay in the flat list.
triageExtendedObjects(allObjects) ==
    LET IsDir(o) == o.Dir # <<>>
        IsObj(o) == o.Dir = <<>>
        dirs == SelectSeq(allObjects, IsDir)
    IN  [prefixes |-> Distinct([i \in 1..Len(dirs) |-> dirs[i].Dir]),
         objects  |-> SelectSeq(allObjects, IsObj)]

\* triageVersions: live versions and delete markers, order kept.
triageVersions(objVersions) ==
    LET IsMarker(o) == o.IsDeleteMarker
        IsLive(o) == ~o.IsDeleteMarker
    IN  [Version      |-> SelectSeq(objVersions, IsLive),
         DeleteMarker |-> SelectSeq(objVersions, IsMarker)]

\* What a call that did not return leaves behind: allObjects[p.MaxKeys-1]
\* with MaxKeys = 0 indexes the truncated slice at -1.
Panicked ==
    [done |-> TRUE, panicked |-> TRUE, IsTruncated |-> FALSE,
     NextKeyMarker |-> <<>>, NextVersionIDMarker |-> <<>>,
     KeyMarker |-> <<>>, VersionIDMarker |-> <<>>,
     CommonPrefixes |-> <<>>, objects |-> <<>>,
     Version |-> <<>>, DeleteMarker |-> <<>>]

\* The test of the pagination step.
truncated(allObjects, MaxKeys) == Len(allObjects) > MaxKeys

\* The remaining list after the cursor and the delimiter collapse.
remaining(bucket, p) ==
    LET versions == getAllObjectsVersions(bucket, p.Prefix, p.Delimiter)
        all      == flatten(versions, SortStrings(DOMAIN versions))
        cut      == advanceCursor(all, p.KeyMarker, p.VersionIDMarker)
    IN  triageExtendedObjects(cut)

\* A plausible slip: the delimiter collapse is left out.
ListObjectVersionsNoTriage(bucket, p) ==
    LET versions == getAllObjectsVersions(bucket, p.Prefix, p.Delimiter)
        all      == flatten(versions, SortStrings(DOMAIN versions))
        cut      == advanceCursor(all, p.KeyMarker, p.VersionIDMarker)
        split    == triageVersions(cut)
    IN  [Panicked EXCEPT !.panicked = FALSE, !.objects = cut,
            !.Version = split.Version, !.DeleteMarker = split.DeleteMarker]

\* layer.ListObjectVersions
ListObjectVersions(bucket, p) ==
    LET tri  == remaining(bucket, p)
        all  == tri.objects
        cutN == truncated(all, p.MaxKeys)
    IN  \* an index outside the slice panics: allObjects[p.MaxKeys] and,
        \* after the truncation, allObjects[p.MaxKeys-1]
        IF cutN /\ (p.MaxKeys < 1 \/ p.MaxKeys >= Len(all)) THEN Panicked
        ELSE LET objects == IF cutN THEN SubSeq(all, 1, p.MaxKeys) ELSE all
                 split   == triageVersions(objects)
             IN  [done                |-> TRUE,
                  panicked            |-> FALSE,
                  IsTruncated         |-> cutN,
                  NextKeyMarker       |->
                      IF cutN THEN all[p.MaxKeys + 1].Name ELSE <<>>,
                  NextVersionIDMarker |->
                      IF cutN THEN Version(all[p.MaxKeys + 1]) ELSE <<>>,
                  KeyMarker           |->
                      IF cutN THEN objects[p.MaxKeys].Name ELSE <<>>,
                  VersionIDMarker     |->
                      IF cutN THEN Version(objects[p.MaxKeys]) ELSE <<>>,
                  CommonPrefixes      |-> tri.prefixes,
                  objects             |-> objects,
                  Version             |-> split.Version,
                  DeleteMarker        |-> split.DeleteMarker]

(***************************************************************************)
(* Tree backend behind the TreeGateway                                     *)
(*                                                                         *)
(* A tree is a set of nodes [id, parent, ts, meta]; the root has id 0 and  *)
(* is not stored. meta maps reserved keys to values. A path is walked      *)
(* through intermediate nodes, whose only metadata is the FileName; where  *)
(* a segment matches several of them the backend follows the first in its  *)
(* index: here the one with the least NodeId.                              *)
(***************************************************************************)

versionTree == "version"
systemTree == "system"

oidKV == "OID"
fileNameKV == "FileName"
isUnversionedKV == "IsUnversioned"
uploadIDKV == "UploadId"
partNumberKV == "Number"
sizeKV == "Size"
etagKV == "ETag"
isDeleteMarkerKV == "IsDeleteMarker"
ownerKV == "Owner"
createdKV == "Created"

EmptyMeta == [k \in {} |-> <<>>]
Has(meta, k) == k \in DOMAIN meta

RootNode == [id |-> 0, parent |-> 0, ts |-> 0, meta |-> EmptyMeta]

NodeByID(tree, id) ==
    IF id = 0 THEN RootNode ELSE CHOOSE n \in tree : n.id = id

\* The children of a node whose FileName is the given segment.
Named(tree, parentID, segment) ==
    {n \in tree : /\ n.parent = parentID
                  /\ Has(n.meta, fileNameKV)
                  /\ n.meta[fileNameKV] = segment}

\* Walk a path from node cur through intermediate nodes: how many segments
\* were matched, and where.
RECURSIVE Resolve(_, _, _, _)
Resolve(tree, p, cur, k) ==
    IF k = Len(p) THEN [matched |-> k, node |-> cur]
    ELSE LET cands == {n \in Named(tree, cur, p[k + 1])
                          : DOMAIN n.meta = {fileNameKV}}
         IN  IF cands = {} THEN [matched |-> k, node |-> cur]
             ELSE Resolve(tree, p, Min({n.id : n \in cands}), k + 1)

\* addNode: Add(parent, meta): a new node under parent.
addNode(tree, parent, meta, c) ==
    tree \cup {[id |-> c + 1, parent |-> parent, ts |-> c + 1, meta |-> meta]}

\* addNodeByPath: AddByPath(path, FileName, meta): the intermediate nodes
\* that exist are reused, the missing ones are created with {FileName}, and
\* a new node with meta is put under the last of them.
addNodeByPath(tree, p, meta, c) ==
    LET r       == Resolve(tree, p, 0, 0)
        missing == Len(p) - r.matched
        parentOf(i) == IF i = 1 THEN r.node ELSE c + i - 1
        made    == {[id |-> c + i, parent |-> parentOf(i), ts |-> c + i,
                     meta |-> (fileNameKV :> p[r.matched + i])]
                    : i \in 1..missing}
        leaf    == [id |-> c + missing + 1, parent |-> parentOf(missing + 1),
                    ts |-> c + missing + 1, meta |-> meta]
    IN  tree \cup made \cup {leaf}

\* The clock after addNodeByPath: one tick per node created.
byPathTicks(tree, p) == Len(p) - Resolve(tree, p, 0, 0).matched + 1

\* A variant of moveNode that keeps the metadata the new one does not set.
moveNodeMerges(tree, nodeID, parentID, meta, c) ==
    {IF n.id = nodeID
     THEN [id |-> n.id, parent |-> parentID, ts |-> c + 1,
           meta |-> meta @@ n.meta]
     ELSE n : n \in tree}

\* moveNode: Move(node, parent, meta): the node keeps its id, gets the
\* parent and has its metadata replaced.
moveNode(tree, nodeID, parentID, meta, c) ==
    {IF n.id = nodeID
     THEN [id |-> n.id, parent |-> parentID, ts |-> c + 1, meta |-> meta]
     ELSE n : n \in tree}

\* The nodes of the subtree of rootID down to depth, the root included.
RECURSIVE SubTreeNodes(_, _, _)
SubTreeNodes(tree, rootID, depth) ==
    {NodeByID(tree, rootID)} \cup
        IF depth = 0 THEN {}
        ELSE UNION {SubTreeNodes(tree, n.id, depth - 1)
                        : n \in {m \in tree : m.parent = rootID}}

\* removeNode: Remove(node): the node and everything below it.
removeNode(tree, nodeID) ==
    tree \ SubTreeNodes(tree, nodeID, Cardinality(tree))

\* The streams that begin with sent and go on with the nodes of rest, each
\* after its parent.
RECURSIVE streamsFrom(_, _)
streamsFrom(sent, rest) ==
    IF rest = {} THEN {sent}
    ELSE UNION {streamsFrom(Append(sent, n), rest \ {n})
                : n \in {m \in rest :
                            \E i \in 1..Len(sent) : sent[i].id = m.parent}}

\* getSubTree: the orders in which the backend may stream a subtree: the
\* root first, every node after its parent.
getSubTree(tree, rootID, depth) ==
    streamsFrom(<<NodeByID(tree, rootID)>>,
                SubTreeNodes(tree, rootID, depth) \ {NodeByID(tree, rootID)})

\* The nodes a path leads to, r being where its directory part resolved.
leaves(tree, p, r) ==
    IF r.matched < Len(p) - 1 THEN {} ELSE Named(tree, r.node, p[Len(p)])

\* What GetNodeByPath answers for the nodes found: all of them or the
\* latest, each with the attributes asked for.
answer(found, attrs, latestOnly, allAttrs) ==
    {[n EXCEPT !.meta =
        [k \in (IF allAttrs THEN DOMAIN n.meta
                ELSE DOMAIN n.meta \cap attrs) |-> n.meta[k]]]
     : n \in IF latestOnly
              THEN {n \in found : \A m \in found : m.ts <= n.ts}
              ELSE found}

\* getNodes: GetNodeByPath(path, FileName, attributes, latestOnly,
\* allAttributes): the nodes the path leads to, each with the attributes
\* asked for.
getNodes(tree, p, attrs, latestOnly, allAttrs) ==
    answer(leaves(tree, p, Resolve(tree, SubSeq(p, 1, Len(p) - 1), 0, 0)),
           attrs, latestOnly, allAttrs)

(***************************************************************************)
(* NodeCodec                                                               *)
(***************************************************************************)

Digits == <<"0", "1", "2", "3", "4", "5", "6", "7", "8", "9">>

\* strconv.Itoa / strconv.FormatInt(n, 10) for n >= 0
RECURSIVE Itoa(_)
Itoa(n) ==
    IF n < 10 THEN <<Digits[n + 1]>>
    ELSE Itoa(n \div 10) \o <<Digits[(n % 10) + 1]>>

DigitValue(c) == (CHOOSE i \in 1..10 : Digits[i] = c) - 1
IsDigit(c) == \E i \in 1..10 : Digits[i] = c

\* strconv.Atoi / strconv.ParseInt(s, 10, 64) on unsigned decimal text
RECURSIVE Atoi(_)
Atoi(s) ==
    IF s = <<>> \/ \E i \in 1..Len(s) : ~IsDigit(s[i])
    THEN [ok |-> FALSE, val |-> 0]
    ELSE IF Len(s) = 1 THEN [ok |-> TRUE, val |-> DigitValue(s[1])]
    ELSE [ok  |-> TRUE,
          val |-> 10 * Atoi(SubSeq(s, 1, Len(s) - 1)).val
                    + DigitValue(s[Len(s)])]

\* The zero oid.ID.
emptyOID == <<>>

\* newNodeVersion, for the keys the version operations read.
newNodeVersion(filePath, node) ==
    [ID            |-> node.id,
     OID           |-> IF Has(node.meta, oidKV) THEN node.meta[oidKV]
                       ELSE emptyOID,
     Timestamp     |-> node.ts,
     FilePath      |-> filePath,
     IsUnversioned |-> Has(node.meta, isUnversionedKV),
     IsDeleteMarker |-> Has(node.meta, isDeleteMarkerKV)]

\* newPartInfo: a node read as a part; a node whose Number, Size or Created
\* does not parse, or whose Number is not positive, is no part.
newPartInfo(node) ==
    LET num == IF Has(node.meta, partNumberKV)
               THEN Atoi(node.meta[partNumberKV]) ELSE [ok |-> TRUE, val |-> 0]
        siz == IF Has(node.meta, sizeKV)
               THEN Atoi(node.meta[sizeKV]) ELSE [ok |-> TRUE, val |-> 0]
        cre == IF Has(node.meta, createdKV)
               THEN Atoi(node.meta[createdKV]) ELSE [ok |-> TRUE, val |-> 0]
    IN  [ok      |-> num.ok /\ siz.ok /\ cre.ok /\ num.val > 0,
         Number  |-> num.val,
         OID     |-> IF Has(node.meta, oidKV) THEN node.meta[oidKV]
                     ELSE emptyOID,
         Size    |-> siz.val,
         ETag    |-> IF Has(node.meta, etagKV) THEN node.meta[etagKV] ELSE "",
         Created |-> cre.val]

\* metaFromMultipart: FileName is the whole key.
metaFromMultipart(info) ==
    (fileNameKV :> info.Key) @@ (uploadIDKV :> info.UploadID)
        @@ (ownerKV :> info.Owner) @@ (createdKV :> Itoa(info.Created))

(***************************************************************************)
(* Tree client: versions                                                   *)
(***************************************************************************)

ErrNodeNotFound == "ErrNodeNotFound"
ErrNoNodeToRemove == "ErrNoNodeToRemove"
ErrMoreThanOneUnversioned == "found more than one unversioned node"
NoError == "nil"

\* getVersions: the nodes at the path of filepath, as versions.
getVersions(tree, filepath, onlyUnversioned) ==
    LET nodes == getNodes(tree, pathFromName(filepath),
                          {oidKV, isUnversionedKV, isDeleteMarkerKV,
                           etagKV, sizeKV},
                          FALSE, FALSE)
        all   == {newNodeVersion(filepath, n) : n \in nodes}
    IN  IF onlyUnversioned THEN {v \in all : v.IsUnversioned} ELSE all

\* A variant of theOnly that takes the first of several nodes.
theOnlyFirst(nodes) ==
    IF nodes = {} THEN [err |-> ErrNodeNotFound, ID |-> 0]
    ELSE [err |-> NoError, ID |-> Min({v.ID : v \in nodes})]

\* The checks of getUnversioned on the nodes it got.
theOnly(nodes) ==
    IF Cardinality(nodes) > 1
    THEN [err |-> ErrMoreThanOneUnversioned, ID |-> 0]
    ELSE IF Cardinality(nodes) # 1
    THEN [err |-> ErrNodeNotFound, ID |-> 0]
    ELSE [err |-> NoError, ID |-> (CHOOSE v \in nodes : TRUE).ID]

\* getUnversioned: the one unversioned node of filepath.
getUnversioned(tree, filepath) == theOnly(getVersions(tree, filepath, TRUE))

\* getParent: the parent of a node, read from its subtree of depth 0.
getParent(tree, id) ==
    (CHOOSE s \in getSubTree(tree, id, 0) : TRUE)[1].parent

\* The metadata addVersion writes.
versionMeta(version) ==
    LET p == pathFromName(version.FilePath)
    IN  (oidKV :> version.OID) @@ (fileNameKV :> p[Len(p)])
        @@ (IF version.Size > 0
            THEN (sizeKV :> Itoa(version.Size)) ELSE EmptyMeta)
        @@ (IF version.ETag # ""
            THEN (etagKV :> version.ETag) ELSE EmptyMeta)
        @@ (IF version.IsDeleteMarker
            THEN (isDeleteMarkerKV :> "true") @@ (ownerKV :> version.Owner)
                 @@ (createdKV :> Itoa(version.Created))
            ELSE EmptyMeta)
        @@ (IF version.IsUnversioned
            THEN (isUnversionedKV :> "true") ELSE EmptyMeta)

\* A variant of addVersionCall that never looks for the unversioned node.
addVersionAlwaysAdds(tree, version) ==
    [call |-> "addByPath", err |-> NoError, node |-> 0, parent |-> 0]

\* What addVersion does with the outcome of its lookup.
callAfter(tree, version, found) ==
    IF version.IsUnversioned /\ found.err = NoError
    THEN [call |-> "move", err |-> NoError, node |-> found.ID,
          parent |-> getParent(tree, found.ID)]
    ELSE IF version.IsUnversioned /\ found.err # ErrNodeNotFound
    THEN [call |-> "none", err |-> found.err, node |-> 0, parent |-> 0]
    ELSE [call |-> "addByPath", err |-> NoError, node |-> 0, parent |-> 0]

\* A variant of addVersionCall that looks for the unversioned node whatever
\* the version is.
addVersionAlwaysLooks(tree, version) ==
    callAfter(tree, [version EXCEPT !.IsUnversioned = TRUE],
              getUnversioned(tree, version.FilePath))

\* The backend call addVersion ends with: a move of the unversioned node
\* onto itself, an add by path, or none when the lookup failed.
addVersionCall(tree, version) ==
    callAfter(tree, version, getUnversioned(tree, version.FilePath))

\* A variant of issue whose add by path is a move when the directory holds
\* an unversioned node of the name by the time of the call.
issueLooksAgain(tree, dir, meta, c, plan) ==
    IF /\ plan.call = "addByPath"
       /\ Has(meta, isUnversionedKV)
       /\ \E n \in leaves(tree, Append(dir, meta[fileNameKV]),
                           Resolve(tree, dir, 0, 0)) :
                Has(n.meta, isUnversionedKV)
    THEN [tree  |-> moveNode(tree,
                        Min({n.id : n \in {m \in leaves(tree,
                                Append(dir, meta[fileNameKV]),
                                Resolve(tree, dir, 0, 0))
                                : Has(m.meta, isUnversionedKV)}}),
                        Resolve(tree, dir, 0, 0).node, meta, c),
          clock |-> c + 1, err |-> NoError, call |-> "move", node |-> 0]
    ELSE IF plan.call = "move"
    THEN [tree  |-> moveNode(tree, plan.node, plan.parent, meta, c),
          clock |-> c + 1, err |-> NoError, call |-> "move",
          node  |-> plan.node]
    ELSE IF plan.call = "none"
    THEN [tree |-> tree, clock |-> c, err |-> plan.err, call |-> "none",
          node |-> 0]
    ELSE [tree  |-> addNodeByPath(tree, dir, meta, c),
          clock |-> c + byPathTicks(tree, dir), err |-> NoError,
          call  |-> "addByPath", node |-> c + byPathTicks(tree, dir)]

\* The tree and the clock after the backend call; node is the node the
\* version is in.
issue(tree, dir, meta, c, plan) ==
    IF plan.call = "move"
    THEN [tree  |-> moveNode(tree, plan.node, plan.parent, meta, c),
          clock |-> c + 1, err |-> NoError, call |-> "move",
          node  |-> plan.node]
    ELSE IF plan.call = "none"
    THEN [tree |-> tree, clock |-> c, err |-> plan.err, call |-> "none",
          node |-> 0]
    ELSE [tree  |-> addNodeByPath(tree, dir, meta, c),
          clock |-> c + byPathTicks(tree, dir), err |-> NoError,
          call  |-> "addByPath", node |-> c + byPathTicks(tree, dir)]

\* addVersion: the tree and the clock after the call.
addVersion(tree, version, c) ==
    issue(tree,
          SubSeq(pathFromName(version.FilePath), 1,
                 Len(pathFromName(version.FilePath)) - 1),
          versionMeta(version), c, addVersionCall(tree, version))

(***************************************************************************)
(* Tree client: multipart uploads                                          *)
(***************************************************************************)

\* The metadata AddPart writes.
partMeta(info) ==
    (partNumberKV :> Itoa(info.Number)) @@ (oidKV :> info.OID)
        @@ (sizeKV :> Itoa(info.Size)) @@ (createdKV :> Itoa(info.Created))
        @@ (etagKV :> info.ETag)

\* The loop of AddPart over the streamed subtree: the first child that is
\* a part with the number, as [foundPartID, oldObjIDToDelete]; both zero
\* when there is none.
RECURSIVE findPart(_, _, _, _)
findPart(stream, i, multipartNodeID, number) ==
    IF i > Len(stream)
    THEN [foundPartID |-> 0, oldObjIDToDelete |-> emptyOID]
    ELSE IF /\ stream[i].id # multipartNodeID
            /\ newPartInfo(stream[i]).ok
            /\ newPartInfo(stream[i]).Number = number
    THEN [foundPartID |-> stream[i].id,
          oldObjIDToDelete |-> newPartInfo(stream[i]).OID]
    ELSE findPart(stream, i + 1, multipartNodeID, number)

\* AddPart, on one streamed order of the children: the tree after the call
\* and what the call returns.
addPart(tree, multipartNodeID, info, stream, c) ==
    LET found == findPart(stream, 1, multipartNodeID, info.Number)
    IN  IF found.foundPartID # multipartNodeID
        THEN [tree |-> addNode(tree, multipartNodeID, partMeta(info), c),
              oid  |-> emptyOID, err |-> ErrNoNodeToRemove]
        ELSE [tree |-> moveNode(tree, found.foundPartID, multipartNodeID,
                                partMeta(info), c),
              oid  |-> found.oldObjIDToDelete, err |-> NoError]

\* The children of an upload node that read as parts with the number.
PartsNumbered(tree, multipartNodeID, number) ==
    {n \in tree : /\ n.parent = multipartNodeID
                  /\ newPartInfo(n).ok
                  /\ newPartInfo(n).Number = number}

\* The FileNames from the root down to a node.
RECURSIVE PathTo(_, _)
PathTo(tree, id) ==
    IF id = 0 THEN <<>>
    ELSE LET n == NodeByID(tree, id)
         IN  PathTo(tree, n.parent)
                \o <<IF Has(n.meta, fileNameKV) THEN n.meta[fileNameKV]
                     ELSE <<>>>>

\* The nodes of a tree that carry an object and sit at the path of a key.
VersionNodesAt(tree, filepath) ==
    {n \in tree : Has(n.meta, oidKV)
                    /\ PathTo(tree, n.id) = pathFromName(filepath)}

(***************************************************************************)
(* Tree client: versions under a prefix                                    *)
(***************************************************************************)

maxGetSubTreeDepth == 10

ErrMoreThanOneIntermediate == "found more than one intermediate nodes"
ErrInvalidNodeOrder == "invalid node order: couldn't get parent path"

\* strings.HasSuffix / strings.TrimSuffix
HasSuffix(s, suffix) ==
    /\ Len(suffix) <= Len(s)
    /\ SubSeq(s, Len(s) - Len(suffix) + 1, Len(s)) = suffix

TrimSuffix(s, suffix) ==
    IF HasSuffix(s, suffix) THEN SubSeq(s, 1, Len(s) - Len(suffix)) ELSE s

\* getFilename: the FileName as stored, "" when the node has none.
getFilename(node) ==
    IF Has(node.meta, fileNameKV) THEN node.meta[fileNameKV] ELSE <<>>

\* isIntermediate: the node's only metadata is its FileName.
isIntermediate(node) == DOMAIN node.meta = {fileNameKV}

\* A variant of theOnlyIntermediate that takes the least of several nodes.
theOnlyIntermediateLeast(ids) ==
    IF ids = {} THEN [err |-> ErrNodeNotFound, rootID |-> 0]
    ELSE [err |-> NoError, rootID |-> Min(ids)]

\* The checks of getPrefixNodeID on the intermediate nodes it got.
theOnlyIntermediate(ids) ==
    IF ids = {} THEN [err |-> ErrNodeNotFound, rootID |-> 0]
    ELSE IF Cardinality(ids) > 1
    THEN [err |-> ErrMoreThanOneIntermediate, rootID |-> 0]
    ELSE [err |-> NoError, rootID |-> CHOOSE id \in ids : TRUE]

\* getPrefixNodeID: the one intermediate node at prefixPath.
getPrefixNodeID(tree, prefixPath) ==
    theOnlyIntermediate(
        {n.id : n \in {m \in getNodes(tree, prefixPath, {}, FALSE, TRUE)
                          : isIntermediate(m)}})

\* The segments of a prefix: a leading empty one becomes the marker.
prefixPath(prefix) ==
    IF Len(Split(prefix)) > 1 /\ Split(prefix)[1] = <<>>
    THEN [Split(prefix) EXCEPT ![1] = emptyFileName]
    ELSE Split(prefix)

\* determinePrefixNode, given the segments: the node to list under and the
\* tail the names of its children are matched against.
prefixNodeOf(tree, p) ==
    IF Len(p) > 1
    THEN getPrefixNodeID(tree, SubSeq(p, 1, Len(p) - 1))
            @@ [tailPrefix |-> p[Len(p)]]
    ELSE [err |-> NoError, rootID |-> 0, tailPrefix |-> p[Len(p)]]

determinePrefixNode(tree, prefix) == prefixNodeOf(tree, prefixPath(prefix))

\* A variant of keepNode that keeps the leaf streamed last.
keepNodeLastStreamed(nodes, node, latestOnly) ==
    IF nodes = <<>> THEN <<node>>
    ELSE IF ~latestOnly \/ isIntermediate(node) THEN Append(nodes, node)
    ELSE IF isIntermediate(nodes[1]) THEN <<node>> \o nodes
    ELSE [nodes EXCEPT ![1] = node]

\* The nodes kept for one name once another node of that name arrives.
keepNode(nodes, node, latestOnly) ==
    IF nodes = <<>> THEN <<node>>
    ELSE IF ~latestOnly \/ isIntermediate(node) THEN Append(nodes, node)
    ELSE IF isIntermediate(nodes[1]) THEN <<node>> \o nodes
    ELSE IF node.ts > nodes[1].ts THEN [nodes EXCEPT ![1] = node]
    ELSE nodes

\* nodesMap[fileName], empty when the name is not in the map.
nodesOf(nodesMap, fileName) ==
    IF fileName \in DOMAIN nodesMap THEN nodesMap[fileName] ELSE <<>>

\* One turn of the loop of getSubTreeByPrefix.
prefixStep(nodesMap, node, rootID, tailPrefix, latestOnly) ==
    IF node.id = rootID \/ ~HasPrefix(getFilename(node), tailPrefix)
    THEN nodesMap
    ELSE (getFilename(node)
            :> keepNode(nodesOf(nodesMap, getFilename(node)), node,
                        latestOnly))
         @@ nodesMap

\* The loop of getSubTreeByPrefix over the streamed children.
RECURSIVE prefixLoop(_, _, _, _, _, _)
prefixLoop(stream, i, nodesMap, rootID, tailPrefix, latestOnly) ==
    IF i > Len(stream) THEN nodesMap
    ELSE prefixLoop(stream, i + 1,
                    prefixStep(nodesMap, stream[i], rootID, tailPrefix,
                               latestOnly),
                    rootID, tailPrefix, latestOnly)

\* The nodes of a nodesMap.
mapNodes(nodesMap) ==
    UNION {{nodesMap[f][i] : i \in 1..Len(nodesMap[f])} : f \in DOMAIN nodesMap}

\* getSubTreeByPrefix, for every order the children may be streamed in: the
\* nodes whose subtrees hold the versions under the prefix, and the head of
\* the prefix. A prefix whose directory part is not found gives nothing.
subTreeByPrefix(tree, prefix, latestOnly, at) ==
    IF at.err = ErrNodeNotFound
    THEN {[err |-> NoError, nodes |-> {}, headPrefix |-> <<>>]}
    ELSE IF at.err # NoError
    THEN {[err |-> at.err, nodes |-> {}, headPrefix |-> <<>>]}
    ELSE {[err        |-> NoError,
           nodes      |-> mapNodes(prefixLoop(stream, 1, EmptyMeta, at.rootID,
                                              at.tailPrefix, latestOnly)),
           headPrefix |-> TrimSuffix(prefix, at.tailPrefix)]
          : stream \in getSubTree(tree, at.rootID, 1)}

getSubTreeByPrefix(tree, prefix, latestOnly) ==
    subTreeByPrefix(tree, prefix, latestOnly,
                    determinePrefixNode(tree, prefix))

\* parseTreeNode: a node without FileName does not parse; the FileName is
\* read with the marker decoded.
parseTreeNode(node) ==
    [ok       |-> Has(node.meta, fileNameKV),
     fileName |-> FileNameOf(getFilename(node))]

\* formLatestNodeKey
formLatestNodeKey(parentID, fileName) == Itoa(parentID) \o <<".">> \o fileName

\* The versions kept for one key once another version of it arrives.
keepVersion(versionNodes, v, latestOnly) ==
    IF versionNodes = <<>> THEN <<v>>
    ELSE IF ~latestOnly THEN Append(versionNodes, v)
    ELSE IF versionNodes[1].Timestamp <= v.Timestamp
    THEN [versionNodes EXCEPT ![1] = v]
    ELSE versionNodes

\* The second half of a turn of the loop of getSubTreeVersions: the node's
\* path is known.
versionStep(st, node, fileName, filepath, latestOnly) ==
    IF ~Has(node.meta, oidKV) \/ node.meta[oidKV] = emptyOID
    THEN [st EXCEPT !.names = (node.id :> filepath) @@ @]
    ELSE [st EXCEPT
            !.names = (node.id :> filepath) @@ @,
            !.versions =
                (formLatestNodeKey(node.parent, fileName)
                    :> keepVersion(nodesOf(st.versions,
                                     formLatestNodeKey(node.parent, fileName)),
                                   newNodeVersion(filepath, node),
                                   latestOnly))
                @@ @]

\* A variant of subTreeStep that puts no separator after the path of the
\* parent.
subTreeStepJoinsPlain(st, i, node, parentPrefix, latestOnly) ==
    IF st.err # NoError \/ ~parseTreeNode(node).ok THEN st
    ELSE IF i = 1
    THEN versionStep(st, node, parseTreeNode(node).fileName,
                     parentPrefix \o parseTreeNode(node).fileName, latestOnly)
    ELSE IF node.parent \notin DOMAIN st.names
    THEN [st EXCEPT !.err = ErrInvalidNodeOrder]
    ELSE versionStep(st, node, parseTreeNode(node).fileName,
                     st.names[node.parent] \o parseTreeNode(node).fileName,
                     latestOnly)

\* One turn of the loop of getSubTreeVersions: a node that does not parse is
\* skipped, the first node of the stream takes the parent prefix, any other
\* the path of its parent (formFilePath).
subTreeStep(st, i, node, parentPrefix, latestOnly) ==
    IF st.err # NoError \/ ~parseTreeNode(node).ok THEN st
    ELSE IF i = 1
    THEN versionStep(st, node, parseTreeNode(node).fileName,
                     parentPrefix \o parseTreeNode(node).fileName, latestOnly)
    ELSE IF node.parent \notin DOMAIN st.names
    THEN [st EXCEPT !.err = ErrInvalidNodeOrder]
    ELSE versionStep(st, node, parseTreeNode(node).fileName,
                     st.names[node.parent] \o separator
                        \o parseTreeNode(node).fileName,
                     latestOnly)

RECURSIVE subTreeLoop(_, _, _, _, _)
subTreeLoop(stream, i, st, parentPrefix, latestOnly) ==
    IF i > Len(stream) THEN st
    ELSE subTreeLoop(stream, i + 1,
                     subTreeStep(st, i, stream[i], parentPrefix, latestOnly),
                     parentPrefix, latestOnly)

\* A variant of groupsResult that drops no group.
groupsResultKeepsMarkers(st, latestOnly) ==
    [err      |-> st.err,
     versions |->
        IF st.err # NoError THEN {}
        ELSE UNION {{st.versions[k][i] : i \in 1..Len(st.versions[k])}
                    : k \in DOMAIN st.versions}]

\* The versions getSubTreeVersions returns from the groups it built.
groupsResult(st, latestOnly) ==
    [err      |-> st.err,
     versions |->
        IF st.err # NoError THEN {}
        ELSE UNION {{st.versions[k][i] : i \in 1..Len(st.versions[k])}
                    : k \in {g \in DOMAIN st.versions :
                                ~(latestOnly
                                  /\ st.versions[g][1].IsDeleteMarker)}}]

\* The loop of getSubTreeVersions and the result it ends with, on one
\* streamed order of the subtree.
subTreeVersionsOf(stream, parentFilePath, latestOnly) ==
    groupsResult(
        subTreeLoop(stream, 1,
                    [names |-> EmptyMeta, versions |-> EmptyMeta,
                     err |-> NoError],
                    IF parentFilePath # <<>>
                    THEN TrimSuffix(parentFilePath, separator) \o separator
                    ELSE <<>>,
                    latestOnly),
        latestOnly)

\* getSubTreeVersions, for every order the subtree may be streamed in.
getSubTreeVersions(tree, nodeID, parentFilePath, latestOnly) ==
    {subTreeVersionsOf(stream, parentFilePath, latestOnly)
     : stream \in getSubTree(tree, nodeID, maxGetSubTreeDepth)}

\* The loop of getVersionsByPrefix over the prefix nodes: the results of
\* their subtrees put together, the first error ending the call.
RECURSIVE versionsOfNodes(_, _, _, _)
versionsOfNodes(tree, ids, headPrefix, latestOnly) ==
    IF ids = {} THEN {[err |-> NoError, versions |-> {}]}
    ELSE {IF a.err # NoError THEN [err |-> a.err, versions |-> {}]
          ELSE IF b.err # NoError THEN [err |-> b.err, versions |-> {}]
          ELSE [err |-> NoError, versions |-> a.versions \cup b.versions]
          : a \in getSubTreeVersions(tree, Min(ids), headPrefix, latestOnly),
            b \in versionsOfNodes(tree, ids \ {Min(ids)}, headPrefix,
                                  latestOnly)}

\* getVersionsByPrefix: every result the call may give, over the orders the
\* backend may stream the subtrees in.
getVersionsByPrefix(tree, prefix, latestOnly) ==
    UNION {IF first.err # NoError
           THEN {[err |-> first.err, versions |-> {}]}
           ELSE versionsOfNodes(tree, {n.id : n \in first.nodes},
                                first.headPrefix, latestOnly)
           : first \in getSubTreeByPrefix(tree, prefix, latestOnly)}

GetAllVersionsByPrefix(tree, prefix) == getVersionsByPrefix(tree, prefix, FALSE)

GetLatestVersionsByPrefix(tree, prefix) ==
    getVersionsByPrefix(tree, prefix, TRUE)

(***************************************************************************)
(* Tree client: tag and lock sidecars of a version node                    *)
(*                                                                         *)
(* A tag set is a function from user keys to values. The metadata keys of  *)
(* a tag node are the user keys with the prefix User-Tag- put before them; *)
(* the prefixing and the stripping are given for the keys of TagKeys.      *)
(***************************************************************************)

isTagKV == "IsTag"
isLockKV == "IsLock"
legalHoldOIDKV == "LegalHoldOID"
retentionOIDKV == "RetentionOID"
untilDateKV == "UntilDate"
isComplianceKV == "IsCompliance"
userDefinedTagPrefix == "User-Tag-"

\* The user keys of the tag sets: a plain one, and one that itself begins
\* with the prefix.
TagKeys == {"k", "User-Tag-k"}

\* userDefinedTagPrefix + key
withTagPrefix(metaKey) ==
    CASE metaKey = "k" -> "User-Tag-k"
      [] metaKey = "User-Tag-k" -> "User-Tag-User-Tag-k"

\* strings.HasPrefix(key, userDefinedTagPrefix)
hasTagPrefix(metaKey) == metaKey \in {"User-Tag-k", "User-Tag-User-Tag-k"}

\* strings.TrimPrefix(key, userDefinedTagPrefix)
trimTagPrefix(metaKey) ==
    CASE metaKey = "User-Tag-k" -> "k"
      [] metaKey = "User-Tag-User-Tag-k" -> "User-Tag-k"
      [] OTHER -> metaKey

\* TreeNode.Get: newTreeNode keeps OID and Size in fields of their own, the
\* other keys in Meta.
Get(node, metaKey) ==
    metaKey \notin {oidKV, sizeKV} /\ Has(node.meta, metaKey)

\* The first of the keys that the node carries, none when it carries none.
firstKey(node, keys) ==
    {keys[i] : i \in {j \in 1..Len(keys) :
                        /\ Get(node, keys[j])
                        /\ \A h \in 1..(j - 1) : ~Get(node, keys[h])}}

\* One turn of the loop of getTreeNodes: the node is put under the first of
\* the keys it carries.
treeNodesStep(treeNodes, node, found) ==
    IF found = {} THEN treeNodes
    ELSE ((CHOOSE k \in found : TRUE) :> node) @@ treeNodes

\* The loop of getTreeNodes over the streamed subtree: it ends once a node
\* is held for every key.
RECURSIVE treeNodesLoop(_, _, _, _)
treeNodesLoop(stream, i, keys, treeNodes) ==
    IF i > Len(stream) \/ (i > 1 /\ Cardinality(DOMAIN treeNodes) = Len(keys))
    THEN treeNodes
    ELSE treeNodesLoop(stream, i + 1, keys,
                       treeNodesStep(treeNodes, stream[i],
                                     firstKey(stream[i], keys)))

\* getTreeNodes, on one streamed order of the depth-1 subtree.
getTreeNodes(stream, keys) == treeNodesLoop(stream, 1, keys, EmptyMeta)

\* treeNodes[key]: the node, none when the key is not in the map (nil).
nodeAt(treeNodes, metaKey) ==
    IF metaKey \in DOMAIN treeNodes THEN {treeNodes[metaKey]} ELSE {}

\* getTreeNode
getTreeNode(stream, metaKey) ==
    nodeAt(getTreeNodes(stream, <<metaKey>>), metaKey)

\* The keys of a metadata map that begin with the prefix, stripped of it,
\* each with its value.
userTags(meta) ==
    [u \in {trimTagPrefix(k) : k \in {h \in DOMAIN meta : hasTagPrefix(h)}}
        |-> meta[CHOOSE k \in DOMAIN meta :
                    hasTagPrefix(k) /\ trimTagPrefix(k) = u]]

\* getObjectTagging: the user tags of a tag node, nil when there is none.
getObjectTagging(tagNode) ==
    IF tagNode = {} THEN [nil |-> TRUE, tags |-> EmptyMeta]
    ELSE [nil  |-> FALSE,
          tags |-> userTags((CHOOSE n \in tagNode : TRUE).meta)]

\* GetObjectTagging
GetObjectTagging(stream) == getObjectTagging(getTreeNode(stream, isTagKV))

\* The metadata PutObjectTagging writes.
treeTagSet(tagSet) ==
    (isTagKV :> "true")
        @@ [k \in {withTagPrefix(u) : u \in DOMAIN tagSet}
                |-> tagSet[CHOOSE u \in DOMAIN tagSet : withTagPrefix(u) = k]]

\* A variant of putTagNode that always adds.
putTagNodeAlwaysAdds(tree, versionID, tagSet, tagNode, c) ==
    addNode(tree, versionID, treeTagSet(tagSet), c)

\* The backend call PutObjectTagging ends with, tagNode being the node its
\* lookup gave.
putTagNode(tree, versionID, tagSet, tagNode, c) ==
    IF tagNode = {}
    THEN addNode(tree, versionID, treeTagSet(tagSet), c)
    ELSE moveNode(tree, (CHOOSE n \in tagNode : TRUE).id, versionID,
                  treeTagSet(tagSet), c)

\* PutObjectTagging, on one streamed order of the children.
putObjectTagging(tree, versionID, tagSet, stream, c) ==
    putTagNode(tree, versionID, tagSet, getTreeNode(stream, isTagKV), c)

\* The backend call DeleteObjectTagging ends with, if any.
removeTagNode(tree, tagNode) ==
    IF tagNode = {} THEN tree
    ELSE removeNode(tree, (CHOOSE n \in tagNode : TRUE).id)

\* DeleteObjectTagging, on one streamed order of the children.
deleteObjectTagging(tree, stream) ==
    removeTagNode(tree, getTreeNode(stream, isTagKV))

(***************************************************************************)
(* LockInfo                                                                *)
(***************************************************************************)

NewLockInfo(id) ==
    [id |-> id, legalHoldOID |-> emptyOID, setLegalHold |-> FALSE,
     retentionOID |-> emptyOID, setRetention |-> FALSE,
     untilDate |-> "", isCompliance |-> FALSE]

SetLegalHold(l, objID) ==
    [l EXCEPT !.legalHoldOID = objID, !.setLegalHold = TRUE]

ResetLegalHold(l) == [l EXCEPT !.setLegalHold = FALSE]

SetRetention(l, objID, until, isCompliance) ==
    [l EXCEPT !.retentionOID = objID, !.setRetention = TRUE,
              !.untilDate = until, !.isCompliance = isCompliance]

\* The metadata PutLock writes.
lockMeta(lock) ==
    (isLockKV :> "true")
        @@ (IF lock.setLegalHold
            THEN (legalHoldOIDKV :> lock.legalHoldOID) ELSE EmptyMeta)
        @@ (IF lock.setRetention
            THEN (retentionOIDKV :> lock.retentionOID)
                 @@ (untilDateKV :> lock.untilDate)
            ELSE EmptyMeta)
        @@ (IF lock.setRetention /\ lock.isCompliance
            THEN (isComplianceKV :> "true") ELSE EmptyMeta)

\* A variant of putLock that writes the legal hold whether it is set or not.
putLockKeepsLegalHold(tree, nodeID, lock, c) ==
    IF lock.id = 0
    THEN addNode(tree, nodeID,
                 lockMeta([lock EXCEPT !.setLegalHold = TRUE]), c)
    ELSE moveNode(tree, lock.id, nodeID,
                  lockMeta([lock EXCEPT !.setLegalHold = TRUE]), c)

\* A variant of putLock that always adds.
putLockAlwaysAdds(tree, nodeID, lock, c) ==
    addNode(tree, nodeID, lockMeta(lock), c)

\* PutLock
putLock(tree, nodeID, lock, c) ==
    IF lock.id = 0 THEN addNode(tree, nodeID, lockMeta(lock), c)
    ELSE moveNode(tree, lock.id, nodeID, lockMeta(lock), c)

\* The retention getLock reads from a lock node.
withRetention(lockInfo, meta) ==
    IF Has(meta, retentionOIDKV)
    THEN SetRetention(lockInfo, meta[retentionOIDKV],
                      IF Has(meta, untilDateKV) THEN meta[untilDateKV] ELSE "",
                      Has(meta, isComplianceKV))
    ELSE lockInfo

\* The legal hold getLock reads from a lock node.
withLegalHold(lockInfo, meta) ==
    IF Has(meta, legalHoldOIDKV)
    THEN SetLegalHold(lockInfo, meta[legalHoldOIDKV]) ELSE lockInfo

\* getLock: the LockInfo of a lock node, the empty one when there is none.
getLock(lockNode) ==
    IF lockNode = {} THEN NewLockInfo(0)
    ELSE withRetention(
            withLegalHold(NewLockInfo((CHOOSE n \in lockNode : TRUE).id),
                          (CHOOSE n \in lockNode : TRUE).meta),
            (CHOOSE n \in lockNode : TRUE).meta)

\* GetLock
GetLock(stream) == getLock(getTreeNode(stream, isLockKV))

\* What GetObjectTaggingAndLock makes of the nodes of its one scan.
taggingAndLock(nodes) ==
    [tagging |-> getObjectTagging(nodeAt(nodes, isTagKV)),
     lock    |-> getLock(nodeAt(nodes, isLockKV))]

\* GetObjectTaggingAndLock
GetObjectTaggingAndLock(stream) ==
    taggingAndLock(getTreeNodes(stream, <<isTagKV, isLockKV>>))

(***************************************************************************)
(* Tree client: the singletons of the system tree                          *)
(*                                                                         *)
(* The settings, the CORS pointer, the notification pointer and the bucket *)
(* tags of a bucket are one node each at the root of the system tree,      *)
(* found by its FileName. The four names are taken whole, as one segment.  *)
(***************************************************************************)

versioningKV == "Versioning"
lockConfigurationKV == "LockConfiguration"

settingsFileName == <<"bucket-settings">>
notifConfFileName == <<"bucket-notifications">>
corsFilename == <<"bucket-cors">>
bucketTaggingFilename == <<"bucket-tagging">>

ErrMoreThanOneNode == "found more than one node"
ErrInvalidLockConfiguration == "invalid lock configuration"

\* A variant of theOnlyNode that takes one of several nodes.
theOnlyNodeOfSeveral(nodes) ==
    IF nodes = {} THEN [err |-> ErrNodeNotFound, node |-> {}]
    ELSE [err  |-> NoError,
          node |-> {CHOOSE n \in nodes : \A m \in nodes : n.id <= m.id}]

\* The checks of getNode on the nodes the path led to: node holds the one
\* node, nothing (nil) on an error.
theOnlyNode(nodes) ==
    IF nodes = {} THEN [err |-> ErrNodeNotFound, node |-> {}]
    ELSE IF Cardinality(nodes) # 1
    THEN [err |-> ErrMoreThanOneNode, node |-> {}]
    ELSE [err |-> NoError, node |-> nodes]

getNode(tree, p, attrs, allAttrs) ==
    theOnlyNode(getNodes(tree, p, attrs, FALSE, allAttrs))

getSystemNode(tree, p, attrs) == getNode(tree, p, attrs, FALSE)

getSystemNodeWithAllAttributes(tree, p) == getNode(tree, p, {}, TRUE)

\* The backend call a put ends with: the node is added at the root when the
\* lookup found none, and moved in place when it found one.
addOrMove(tree, found, meta, c) ==
    IF found.err = ErrNodeNotFound THEN addNode(tree, 0, meta, c)
    ELSE moveNode(tree, (CHOOSE n \in found.node : TRUE).id, 0, meta, c)

\* TreeNode.ObjID of the node a lookup found.
ObjIDOf(found) ==
    IF Has((CHOOSE n \in found.node : TRUE).meta, oidKV)
    THEN (CHOOSE n \in found.node : TRUE).meta[oidKV] ELSE emptyOID

(***************************************************************************)
(* Bucket settings                                                         *)
(*                                                                         *)
(* A *ObjectLockConfiguration, its *ObjectLockRule and its                 *)
(* *DefaultRetention are records with the field nil, which tells the nil   *)
(* pointer from a pointer to a value.                                      *)
(***************************************************************************)

VersioningUnversioned == <<"U">>

NilRetention == [nil |-> TRUE, Days |-> 0, Mode |-> <<>>, Years |-> 0]
NilRule == [nil |-> TRUE, DefaultRetention |-> NilRetention]
NilLockConfiguration ==
    [nil |-> TRUE, ObjectLockEnabled |-> <<>>, Rule |-> NilRule]

\* &data.ObjectLockConfiguration{}
EmptyLockConfiguration == [NilLockConfiguration EXCEPT !.nil = FALSE]

\* strings.Split(s, ","): always at least one field.
RECURSIVE SplitComma(_)
SplitComma(s) ==
    IF \A i \in 1..Len(s) : s[i] # ","
    THEN <<s>>
    ELSE <<SubSeq(s, 1, (CHOOSE i \in 1..Len(s) :
                            /\ s[i] = ","
                            /\ \A j \in 1..(i - 1) : s[j] # ",") - 1)>>
            \o SplitComma(SubSeq(s, (CHOOSE i \in 1..Len(s) :
                                        /\ s[i] = ","
                                        /\ \A j \in 1..(i - 1) : s[j] # ",")
                                     + 1, Len(s)))

\* A variant of encodeLockConfiguration that leaves the years out.
encodeLockConfigurationNoYears(conf) ==
    IF conf.nil THEN <<>>
    ELSE IF conf.Rule.nil \/ conf.Rule.DefaultRetention.nil
    THEN conf.ObjectLockEnabled
    ELSE conf.ObjectLockEnabled \o <<",">>
            \o Itoa(conf.Rule.DefaultRetention.Days) \o <<",">>
            \o conf.Rule.DefaultRetention.Mode

\* encodeLockConfiguration: "%s,%d,%s,%d" of a configuration with a default
\* retention, ObjectLockEnabled alone without one, "" for nil.
encodeLockConfiguration(conf) ==
    IF conf.nil THEN <<>>
    ELSE IF conf.Rule.nil \/ conf.Rule.DefaultRetention.nil
    THEN conf.ObjectLockEnabled
    ELSE conf.ObjectLockEnabled \o <<",">>
            \o Itoa(conf.Rule.DefaultRetention.Days) \o <<",">>
            \o conf.Rule.DefaultRetention.Mode \o <<",">>
            \o Itoa(conf.Rule.DefaultRetention.Years)

\* The number parseLockConfiguration reads from a field: 0 when the field
\* is empty.
lockNumber(field) ==
    IF field = <<>> THEN [ok |-> TRUE, val |-> 0] ELSE Atoi(field)

\* parseLockConfiguration, given the fields of the value.
lockConfigurationOf(value, lockValues) ==
    IF Len(value) = 0
    THEN [err |-> NoError, conf |-> EmptyLockConfiguration]
    ELSE IF Len(lockValues) = 1
    THEN [err  |-> NoError,
          conf |-> [EmptyLockConfiguration
                        EXCEPT !.ObjectLockEnabled = lockValues[1]]]
    ELSE IF Len(lockValues) # 4
            \/ ~lockNumber(lockValues[2]).ok \/ ~lockNumber(lockValues[4]).ok
    THEN [err |-> ErrInvalidLockConfiguration, conf |-> NilLockConfiguration]
    ELSE [err  |-> NoError,
          conf |-> [nil |-> FALSE,
                    ObjectLockEnabled |-> lockValues[1],
                    Rule |-> [nil |-> FALSE,
                              DefaultRetention |->
                                [nil   |-> FALSE,
                                 Days  |-> lockNumber(lockValues[2]).val,
                                 Mode  |-> lockValues[3],
                                 Years |-> lockNumber(lockValues[4]).val]]]]

parseLockConfiguration(value) == lockConfigurationOf(value, SplitComma(value))

metaFromSettings(settings) ==
    (fileNameKV :> settingsFileName)
        @@ (versioningKV :> settings.Versioning)
        @@ (lockConfigurationKV
                :> encodeLockConfiguration(settings.LockConfiguration))

\* A variant of settingsOf without the default of Versioning.
settingsOfNoDefault(meta) ==
    [err |-> NoError, nil |-> FALSE,
     Versioning |-> IF Has(meta, versioningKV) THEN meta[versioningKV]
                    ELSE <<>>,
     LockConfiguration |->
        IF Has(meta, lockConfigurationKV)
        THEN parseLockConfiguration(meta[lockConfigurationKV]).conf
        ELSE NilLockConfiguration]

\* The settings GetSettingsNode reads from the metadata of the node.
settingsOf(meta) ==
    IF Has(meta, lockConfigurationKV)
       /\ parseLockConfiguration(meta[lockConfigurationKV]).err # NoError
    THEN [err |-> ErrInvalidLockConfiguration, nil |-> TRUE]
    ELSE [err |-> NoError, nil |-> FALSE,
          Versioning |-> IF Has(meta, versioningKV) THEN meta[versioningKV]
                         ELSE VersioningUnversioned,
          LockConfiguration |->
            IF Has(meta, lockConfigurationKV)
            THEN parseLockConfiguration(meta[lockConfigurationKV]).conf
            ELSE NilLockConfiguration]

\* GetSettingsNode, found being what its lookup gave.
settingsNode(found) ==
    IF found.err # NoError THEN [err |-> found.err, nil |-> TRUE]
    ELSE settingsOf((CHOOSE n \in found.node : TRUE).meta)

GetSettingsNode(tree) ==
    settingsNode(getSystemNode(tree, <<settingsFileName>>,
                               {versioningKV, lockConfigurationKV}))

\* PutSettingsNode: the error and the tree it leaves, found being what its
\* lookup gave.
putSettingsNode(tree, found, settings, c) ==
    IF found.err \notin {NoError, ErrNodeNotFound}
    THEN [err |-> found.err, tree |-> tree]
    ELSE [err  |-> NoError,
          tree |-> addOrMove(tree, found, metaFromSettings(settings), c)]

PutSettingsNode(tree, settings, c) ==
    putSettingsNode(tree, getSystemNode(tree, <<settingsFileName>>, {}),
                    settings, c)

(***************************************************************************)
(* The CORS pointer and the notification pointer                           *)
(***************************************************************************)

\* The metadata of a pointer node.
pointerMeta(fileName, objID) == (fileNameKV :> fileName) @@ (oidKV :> objID)

\* What a get of a pointer returns, found being what its lookup gave.
getPointer(found) ==
    IF found.err # NoError THEN [err |-> found.err, oid |-> emptyOID]
    ELSE [err |-> NoError, oid |-> ObjIDOf(found)]

\* A variant of putPointer that always adds.
putPointerAlwaysAdds(tree, found, fileName, objID, c) ==
    [err  |-> ErrNoNodeToRemove, oid |-> emptyOID,
     tree |-> addNode(tree, 0, pointerMeta(fileName, objID), c)]

\* A variant of putPointer that returns the OID it was given.
putPointerReturnsNew(tree, found, fileName, objID, c) ==
    IF found.err \notin {NoError, ErrNodeNotFound}
    THEN [err |-> found.err, oid |-> emptyOID, tree |-> tree]
    ELSE IF found.err = ErrNodeNotFound
    THEN [err  |-> ErrNoNodeToRemove, oid |-> emptyOID,
          tree |-> addNode(tree, 0, pointerMeta(fileName, objID), c)]
    ELSE [err  |-> NoError, oid |-> objID,
          tree |-> moveNode(tree, (CHOOSE n \in found.node : TRUE).id, 0,
                            pointerMeta(fileName, objID), c)]

\* What a put of a pointer returns and the tree it leaves: a first put
\* returns ErrNoNodeToRemove, a later one the OID it replaced.
putPointer(tree, found, fileName, objID, c) ==
    IF found.err \notin {NoError, ErrNodeNotFound}
    THEN [err |-> found.err, oid |-> emptyOID, tree |-> tree]
    ELSE IF found.err = ErrNodeNotFound
    THEN [err  |-> ErrNoNodeToRemove, oid |-> emptyOID,
          tree |-> addNode(tree, 0, pointerMeta(fileName, objID), c)]
    ELSE [err  |-> NoError, oid |-> ObjIDOf(found),
          tree |-> moveNode(tree, (CHOOSE n \in found.node : TRUE).id, 0,
                            pointerMeta(fileName, objID), c)]

GetNotificationConfigurationNode(tree) ==
    getPointer(getSystemNode(tree, <<notifConfFileName>>, {oidKV}))

PutNotificationConfigurationNode(tree, objID, c) ==
    putPointer(tree, getSystemNode(tree, <<notifConfFileName>>, {oidKV}),
               notifConfFileName, objID, c)

GetBucketCORS(tree) ==
    getPointer(getSystemNode(tree, <<corsFilename>>, {oidKV}))

PutBucketCORS(tree, objID, c) ==
    putPointer(tree, getSystemNode(tree, <<corsFilename>>, {oidKV}),
               corsFilename, objID, c)

\* DeleteBucketCORS, found being what its lookup gave.
deleteBucketCORS(tree, found) ==
    IF found.err \notin {NoError, ErrNodeNotFound}
    THEN [err |-> found.err, oid |-> emptyOID, tree |-> tree]
    ELSE IF found.node # {}
    THEN [err  |-> NoError, oid |-> ObjIDOf(found),
          tree |-> removeNode(tree, (CHOOSE n \in found.node : TRUE).id)]
    ELSE [err |-> ErrNoNodeToRemove, oid |-> emptyOID, tree |-> tree]

DeleteBucketCORS(tree) ==
    deleteBucketCORS(tree, getSystemNode(tree, <<corsFilename>>, {oidKV}))

(***************************************************************************)
(* Bucket tags                                                             *)
(***************************************************************************)

\* GetBucketTagging, found being what its lookup gave.
bucketTagging(found) ==
    IF found.err # NoError THEN [err |-> found.err, tags |-> EmptyMeta]
    ELSE [err  |-> NoError,
          tags |-> userTags((CHOOSE n \in found.node : TRUE).meta)]

GetBucketTagging(tree) ==
    bucketTagging(getSystemNodeWithAllAttributes(tree,
                                                 <<bucketTaggingFilename>>))

\* The metadata PutBucketTagging writes.
bucketTagSet(tagSet) ==
    (fileNameKV :> bucketTaggingFilename)
        @@ [k \in {withTagPrefix(u) : u \in DOMAIN tagSet}
                |-> tagSet[CHOOSE u \in DOMAIN tagSet : withTagPrefix(u) = k]]

\* PutBucketTagging, found being what its lookup gave.
putBucketTagging(tree, found, tagSet, c) ==
    IF found.err \notin {NoError, ErrNodeNotFound}
    THEN [err |-> found.err, tree |-> tree]
    ELSE [err  |-> NoError,
          tree |-> addOrMove(tree, found, bucketTagSet(tagSet), c)]

PutBucketTagging(tree, tagSet, c) ==
    putBucketTagging(tree, getSystemNode(tree, <<bucketTaggingFilename>>, {}),
                     tagSet, c)

\* DeleteBucketTagging, found being what its lookup gave.
deleteBucketTagging(tree, found) ==
    IF found.err \notin {NoError, ErrNodeNotFound}
    THEN [err |-> found.err, tree |-> tree]
    ELSE IF found.node # {}
    THEN [err  |-> NoError,
          tree |-> removeNode(tree, (CHOOSE n \in found.node : TRUE).id)]
    ELSE [err |-> NoError, tree |-> tree]

DeleteBucketTagging(tree) ==
    deleteBucketTagging(tree,
                        getSystemNode(tree, <<bucketTaggingFilename>>, {}))

(***************************************************************************)
(* Tree client: looking up uploads and parts                               *)
(***************************************************************************)

\* newMultipartInfo: a node read as an upload; a node without UploadId is
\* none. The Key is the FileName without a trailing marker.
newMultipartInfo(node) ==
    [ok       |-> Has(node.meta, uploadIDKV) /\ node.meta[uploadIDKV] # "",
     ID       |-> node.id,
     Key      |-> TrimSuffix(getFilename(node), emptyFileName),
     UploadID |-> IF Has(node.meta, uploadIDKV) THEN node.meta[uploadIDKV]
                  ELSE ""]

\* The nil *MultipartInfo.
NoMultipartInfo == [ok |-> FALSE, ID |-> 0, Key |-> <<>>, UploadID |-> ""]

\* The loop of GetMultipartUpload over the nodes at the path: the first
\* that reads as an upload with the id, whichever order they come in.
uploadAmong(infos) ==
    IF infos = {} THEN {[err |-> ErrNodeNotFound, info |-> NoMultipartInfo]}
    ELSE {[err |-> NoError, info |-> i] : i \in infos}

\* GetMultipartUpload: what the call may return.
getMultipartUpload(tree, objectName, uploadID) ==
    uploadAmong({i \in {newMultipartInfo(n)
                        : n \in getNodes(tree, pathFromName(objectName), {},
                                         FALSE, TRUE)}
                    : i.ok /\ i.UploadID = uploadID})

\* The loop of getSubTreeMultipartUploads over one streamed subtree.
uploadsOfStream(stream) ==
    {i \in {newMultipartInfo(stream[k]) : k \in 1..Len(stream)} : i.ok}

\* getSubTreeMultipartUploads, for every order the subtree may be streamed
\* in.
getSubTreeMultipartUploads(tree, nodeID) ==
    {uploadsOfStream(stream)
        : stream \in getSubTree(tree, nodeID, maxGetSubTreeDepth)}

\* The loop of GetMultipartUploadsByPrefix over the prefix nodes.
RECURSIVE uploadsOfNodes(_, _)
uploadsOfNodes(tree, ids) ==
    IF ids = {} THEN {{}}
    ELSE {a \cup b : a \in getSubTreeMultipartUploads(tree, Min(ids)),
                     b \in uploadsOfNodes(tree, ids \ {Min(ids)})}

\* GetMultipartUploadsByPrefix: what the call may return.
getMultipartUploadsByPrefix(tree, prefix) ==
    UNION {IF first.err # NoError
           THEN {[err |-> first.err, uploads |-> {}]}
           ELSE {[err |-> NoError, uploads |-> u]
                    : u \in uploadsOfNodes(tree, {n.id : n \in first.nodes})}
           : first \in getSubTreeByPrefix(tree, prefix, FALSE)}

\* A variant of partsOfStream that passes over nothing.
partsOfStreamKeepsAll(stream, multipartNodeID) ==
    [k \in 1..Len(stream) |-> newPartInfo(stream[k])]

\* The loop of GetParts over one streamed subtree: the root is passed
\* over, and so is a child that does not read as a part.
partsOfStream(stream, multipartNodeID) ==
    SelectSeq([k \in 1..Len(stream) |->
                    IF stream[k].id = multipartNodeID
                    THEN [ok |-> FALSE]
                    ELSE newPartInfo(stream[k])],
              LAMBDA p : p.ok)

\* GetParts, on one streamed order of the children.
getParts(stream, multipartNodeID) ==
    [err |-> NoError, parts |-> partsOfStream(stream, multipartNodeID)]

(***************************************************************************)
(* Tree client: draining the stream of a subtree                           *)
(***************************************************************************)

\* strings.Contains
Contains(str, substr) ==
    \E i \in 0..(Len(str) - Len(substr)) :
        SubSeq(str, i + 1, i + Len(substr)) = substr

\* What a call of the backend returns beside its value: whether it failed
\* and the message of the error.
NoFailure == [failed |-> FALSE, message |-> <<>>]
Failure(message) == [failed |-> TRUE, message |-> message]

\* What Recv returns: a body, the end of the stream (io.EOF) or an error.
RecvBody(body) == [kind |-> "body", body |-> body, message |-> <<>>]
RecvEOF == [kind |-> "EOF", body |-> <<>>, message |-> <<>>]
RecvError(message) == [kind |-> "error", body |-> <<>>, message |-> message]

\* fmt.Errorf(text + ": %w", err)
Wrapped(text, message) == [err |-> text, cause |-> message]
Plain(err) == [err |-> err, cause |-> <<>>]

\* What getSubTree makes of an error of the backend.
subTreeError(text, message) ==
    IF Contains(message, <<"n", "o", "t", " ", "f", "o", "u", "n", "d">>)
    THEN Plain(ErrNodeNotFound)
    ELSE Wrapped(text, message)

\* A variant of recvLoop that returns what it received along with the
\* error.
RECURSIVE recvLoopKeepsReceived(_, _, _)
recvLoopKeepsReceived(events, i, subtree) ==
    IF events[i].kind = "EOF"
    THEN [subtree |-> subtree, err |-> Plain(NoError)]
    ELSE IF events[i].kind = "error"
    THEN [subtree |-> subtree,
          err |-> subTreeError("failed to get sub tree", events[i].message)]
    ELSE recvLoopKeepsReceived(events, i + 1, Append(subtree, events[i].body))

\* The loop of getSubTree over what cli.Recv() returns, call after call.
RECURSIVE recvLoop(_, _, _)
recvLoop(events, i, subtree) ==
    IF events[i].kind = "EOF"
    THEN [subtree |-> subtree, err |-> Plain(NoError)]
    ELSE IF events[i].kind = "error"
    THEN [subtree |-> <<>>,
          err |-> subTreeError("failed to get sub tree", events[i].message)]
    ELSE recvLoop(events, i + 1, Append(subtree, events[i].body))

\* getSubTree, given what signing the request, opening the stream and
\* receiving from it return.
getSubTreeFrom(signErr, open, events) ==
    IF signErr # NoError THEN [subtree |-> <<>>, err |-> Plain(signErr)]
    ELSE IF open.failed
    THEN [subtree |-> <<>>,
          err |-> subTreeError("failed to get sub tree client", open.message)]
    ELSE recvLoop(events, 1, <<>>)

(***************************************************************************)
(* Tree client: errors of the lookups                                      *)
(*                                                                         *)
(* An error is a record of the sentinel it is or wraps (errors.Is), "" if  *)
(* none, and of its message (Error()).                                     *)
(***************************************************************************)

NotFoundText == <<"n", "o", "t", " ", "f", "o", "u", "n", "d">>

CouldntGetNodes ==
    <<"c", "o", "u", "l", "d", "n", "'", "t", " ", "g", "e", "t", " ", "n",
      "o", "d", "e", "s", ":", " ">>

FailedToGetNodePath ==
    <<"f", "a", "i", "l", "e", "d", " ", "t", "o", " ", "g", "e", "t", " ",
      "n", "o", "d", "e", " ", "p", "a", "t", "h", ":", " ">>

NilError == [is |-> NoError, message |-> <<>>]

\* errors.New(message) of an error that is no sentinel.
NewError(message) == [is |-> "", message |-> message]

\* layer.ErrNodeNotFound as an error value; its message is 'not found'.
NodeNotFound == [is |-> ErrNodeNotFound, message |-> NotFoundText]

\* fmt.Errorf(text + "%w", err)
Errorf(text, err) == [is |-> err.is, message |-> text \o err.message]

\* getNodes, given what signing the request and GetNodeByPath return.
getNodesFrom(signErr, reply) ==
    IF signErr # NilError THEN [err |-> signErr, nodes |-> {}]
    ELSE IF reply.failed
    THEN [err |-> IF Contains(reply.message, NotFoundText)
                  THEN NodeNotFound
                  ELSE Errorf(FailedToGetNodePath, NewError(reply.message)),
          nodes |-> {}]
    ELSE [err |-> NilError, nodes |-> reply.nodes]

\* A variant of versionsError that returns every error of getNodes.
versionsErrorAlways(err) == Errorf(CouldntGetNodes, err)

\* What getVersions returns for an error of getNodes: none when the message
\* contains 'not found'.
versionsError(err) ==
    IF Contains(err.message, NotFoundText) THEN NilError
    ELSE Errorf(CouldntGetNodes, err)

\* getVersions, given what getNodes returned.
getVersionsFrom(filepath, onlyUnversioned, got) ==
    IF got.err # NilError
    THEN [err |-> versionsError(got.err), versions |-> {}]
    ELSE [err |-> NilError,
          versions |-> {v \in {newNodeVersion(filepath, n) : n \in got.nodes}
                          : onlyUnversioned => v.IsUnversioned}]

\* GetLatestVersion, given what getNodes returned.
latestVersionFrom(objectName, got) ==
    IF got.err # NilError
    THEN [err |-> Errorf(CouldntGetNodes, got.err), version |-> {}]
    ELSE IF got.nodes = {}
    THEN [err |-> NodeNotFound, version |-> {}]
    ELSE [err |-> NilError,
          version |-> {newNodeVersion(objectName, n) : n \in got.nodes}]

(***************************************************************************)
(* Tree client: the mutating operations when a read of theirs fails        *)
(***************************************************************************)

\* An error of the backend whose message does not contain 'not found'.
ErrBackend == "backend failure"

\* getSubTree of depth 1 as the mutating operations use it: an error when
\* the call fails, ErrNodeNotFound when the backend has no such node, else
\* one of the streamed orders.
subTreeRead(tree, rootID, failed) ==
    IF failed THEN {[err |-> ErrBackend, subtree |-> <<>>]}
    ELSE IF rootID # 0 /\ rootID \notin {n.id : n \in tree}
    THEN {[err |-> ErrNodeNotFound, subtree |-> <<>>]}
    ELSE {[err |-> NoError, subtree |-> stream]
          : stream \in getSubTree(tree, rootID, 1)}

\* getSystemNode, which may fail.
systemNodeRead(tree, fileName, attrs, failed) ==
    IF failed THEN [err |-> ErrBackend, node |-> {}]
    ELSE getSystemNode(tree, <<fileName>>, attrs)

\* addVersion: what it does once getUnversioned and getParent have
\* returned, each of which may fail.
addVersionPlan(tree, version, unversionedFailed, parentFailed) ==
    IF version.IsUnversioned /\ unversionedFailed
    THEN callAfter(tree, version, [err |-> ErrBackend, ID |-> 0])
    ELSE IF addVersionCall(tree, version).call = "move" /\ parentFailed
    THEN [call |-> "none", err |-> ErrBackend, node |-> 0, parent |-> 0]
    ELSE addVersionCall(tree, version)

\* A variant of addVersionFrom that adds by path when getParent fails.
addVersionFromAddsAnyway(tree, version, c, unversionedFailed, parentFailed) ==
    issue(tree,
          SubSeq(pathFromName(version.FilePath), 1,
                 Len(pathFromName(version.FilePath)) - 1),
          versionMeta(version), c,
          IF addVersionPlan(tree, version, unversionedFailed,
                            parentFailed).call = "none"
          THEN [call |-> "addByPath", err |-> NoError, node |-> 0,
                parent |-> 0]
          ELSE addVersionPlan(tree, version, unversionedFailed, parentFailed))

addVersionFrom(tree, version, c, unversionedFailed, parentFailed) ==
    issue(tree,
          SubSeq(pathFromName(version.FilePath), 1,
                 Len(pathFromName(version.FilePath)) - 1),
          versionMeta(version), c,
          addVersionPlan(tree, version, unversionedFailed, parentFailed))

\* AddPart, given what getSubTree returned.
addPartFrom(tree, multipartNodeID, info, read, c) ==
    IF read.err # NoError
    THEN [tree |-> tree, oid |-> emptyOID, err |-> read.err]
    ELSE addPart(tree, multipartNodeID, info, read.subtree, c)

\* PutObjectTagging, given what getSubTree returned.
putObjectTaggingFrom(tree, versionID, tagSet, read, c) ==
    IF read.err # NoError THEN [tree |-> tree, err |-> read.err]
    ELSE [tree |-> putObjectTagging(tree, versionID, tagSet, read.subtree, c),
          err  |-> NoError]

\* DeleteObjectTagging, given what getSubTree returned.
deleteObjectTaggingFrom(tree, read) ==
    IF read.err # NoError THEN [tree |-> tree, err |-> read.err]
    ELSE [tree |-> deleteObjectTagging(tree, read.subtree), err |-> NoError]

(***************************************************************************)
(* Credentials: cred.GetBox over the access box cache and NeoFS            *)
(*                                                                         *)
(* An address is a string and a box a string, "nil" being no box. The      *)
(* payload of an object is a record: whether it unmarshals to an access    *)
(* box, the keys the box was made for, and the box a holder of one of them *)
(* gets from it. The cache is a function from the addresses it holds to    *)
(* their boxes: its Get gives the box of an address it holds and nil for   *)
(* any other, its Put stores the box or fails.                             *)
(***************************************************************************)

NilBox == "nil"
NoEntries == [addr \in {} |-> NilBox]

ErrReadPayload == "read payload"
ErrUnmarshal == "unmarshal"
ErrNoGate == "no gate for the key"
ErrCachePut == "cache put"

\* cache.Get(addr)
cacheGet(entries, addr) ==
    IF addr \in DOMAIN entries THEN entries[addr] ELSE NilBox

\* cache.Put(addr, box) when it succeeds
cachePut(entries, addr, box) == (addr :> box) @@ entries

\* box.GetBox(key): the box of the holder of key.
boxFor(accessBox, privateKey) ==
    IF privateKey \in accessBox.gates
    THEN [err |-> NoError, box |-> accessBox.box]
    ELSE [err |-> ErrNoGate, box |-> NilBox]

\* getAccessBox, read being what ReadObjectPayload gave: the access box is
\* the payload when it unmarshals.
getAccessBox(read) ==
    IF read.err # NoError THEN [err |-> ErrReadPayload, nil |-> TRUE]
    ELSE IF ~read.data.marshalled THEN [err |-> ErrUnmarshal, nil |-> TRUE]
    ELSE [err |-> NoError, nil |-> FALSE, gates |-> read.data.gates,
          box |-> read.data.box]

\* A variant of getBoxMissed that returns the box without storing it.
getBoxMissedNoStore(entries, addr, privateKey, read, putFailed) ==
    IF getAccessBox(read).err # NoError
    THEN [err |-> getAccessBox(read).err, box |-> NilBox, cache |-> entries]
    ELSE IF boxFor(getAccessBox(read), privateKey).err # NoError
    THEN [err |-> boxFor(getAccessBox(read), privateKey).err,
          box |-> NilBox, cache |-> entries]
    ELSE IF putFailed
    THEN [err |-> ErrCachePut, box |-> NilBox, cache |-> entries]
    ELSE [err   |-> NoError,
          box   |-> boxFor(getAccessBox(read), privateKey).box,
          cache |-> entries]

\* GetBox after the cache gave nothing: the payload is read and decoded,
\* the box of the key taken from it and stored in the cache.
getBoxMissed(entries, addr, privateKey, read, putFailed) ==
    IF getAccessBox(read).err # NoError
    THEN [err |-> getAccessBox(read).err, box |-> NilBox, cache |-> entries]
    ELSE IF boxFor(getAccessBox(read), privateKey).err # NoError
    THEN [err |-> boxFor(getAccessBox(read), privateKey).err,
          box |-> NilBox, cache |-> entries]
    ELSE IF putFailed
    THEN [err |-> ErrCachePut, box |-> NilBox, cache |-> entries]
    ELSE [err   |-> NoError,
          box   |-> boxFor(getAccessBox(read), privateKey).box,
          cache |-> cachePut(entries, addr,
                             boxFor(getAccessBox(read), privateKey).box)]

\* GetBox: the box, the error, the cache it leaves and the number of
\* ReadObjectPayload calls it made.
getBox(entries, addr, privateKey, read, putFailed) ==
    IF cacheGet(entries, addr) # NilBox
    THEN [err |-> NoError, box |-> cacheGet(entries, addr),
          cache |-> entries, reads |-> 0]
    ELSE [err   |-> getBoxMissed(entries, addr, privateKey, read,
                                 putFailed).err,
          box   |-> getBoxMissed(entries, addr, privateKey, read,
                                 putFailed).box,
          cache |-> getBoxMissed(entries, addr, privateKey, read,
                                 putFailed).cache,
          reads |-> 1]

(***************************************************************************)
(* Bounds and input sets                                                   *)
(***************************************************************************)

MaxSegs == 3
MaxKeysBound == 3

\* Segments the keys of SpecPath are built from: empty, plain, and the
\* literal marker.
Segments == {<<>>, <<"a">>, <<"b">>, <<"a", "b">>, emptyFileName}

SegLists == UNION {[1..n -> Segments] : n \in 1..MaxSegs}

PathKeys == {Join(sl) : sl \in SegLists}

\* Object ids (version ids) and object keys of the listing and tree models.
OIDs == {<<"x">>, <<"y">>, <<"z">>}

ListNames == {<<"b">>, <<"d", "/", "a">>, <<"d", "/", "s", "/", "c">>}
ListPrefixes == {<<>>, <<"d", "/">>}
ListDelimiters == {<<>>, separator}

\* The tree models stop issuing calls once the backend has handed out
\* MaxClock node ids and timestamps.
MaxClock == 4

TreeKeys == {<<"a">>, <<"a", "/", "b">>}
TreeOIDs == {<<"x">>, <<"y">>}
UploadKeys == {<<"a">>, <<"a", "/", "b">>}
UploadIDs == {"u1", "u2"}
PartNumbers == {1, 2}

(***************************************************************************)
(* Idle values of the variable groups                                      *)
(***************************************************************************)

NoResult == [done |-> FALSE]

\* The tasks that may have a PutObjectTagging call under way.
Tasks == {1, 2}

\* No call is under way; no calls have overlapped, every lock was put with
\* the id of the lock the node held, no singleton has been put, no upload
\* created and no part stored.
NoCall == [pc |-> "idle"]
NoHist == [raced |-> FALSE, stray |-> FALSE, puts |-> EmptyMeta,
           uploads |-> {}, stored |-> EmptyMeta]

\* No run of unversioned AddVersion calls is under way.
NoRun == [n |-> 0, key |-> <<>>, fresh |-> FALSE, firstId |-> 0,
          lastOID |-> <<>>]

PathIdle == key = <<>> /\ path = pathFromName(<<>>)

ListIdle ==
    /\ stored = {}
    /\ req = NoResult
    /\ res = NoResult
    /\ acc = <<>>
    /\ pc = "idle"

TreeQuiet ==
    /\ trees = [t \in {"version", "system"} |-> {}]
    /\ clock = 0
    /\ parts = {}
    /\ unv = NoRun
    /\ inflight = [t \in Tasks |-> NoCall]
    /\ hist = NoHist

TreeIdle == TreeQuiet /\ ret = [op |-> "none"]

\* The cache of cred holds no box.
CredIdle == cache = NoEntries

(***************************************************************************)
(* SpecPath: pathFromName applied to every key of PathKeys                 *)
(***************************************************************************)

PathFromName(k) ==
    /\ key' = k
    /\ path' = pathFromName(k)
    /\ UNCHANGED <<listVars, treeVars, credVars>>

InitPath == PathIdle /\ ListIdle /\ TreeIdle /\ CredIdle

NextPath == \E k \in PathKeys : PathFromName(k)

SpecPath == InitPath /\ [][NextPath]_vars

(***************************************************************************)
(* SpecList: versions are put into a bucket, then listed: by single calls  *)
(* with any parameters, and by a client that pages through the listing.    *)
(***************************************************************************)

\* A version is stored: the backend gives it the next Timestamp.
PutVersion(name, oid, isDeleteMarker) ==
    /\ pc = "idle"
    /\ res = NoResult
    /\ \A v \in stored : v.OID # oid
    /\ stored' = stored \cup
            {[FilePath |-> name, OID |-> oid,
              Timestamp |-> Cardinality(stored) + 1,
              IsDeleteMarker |-> isDeleteMarker]}
    /\ UNCHANGED <<req, res, acc, pc, pathVars, treeVars, credVars>>

Request(prefix, delimiter, keyMarker, versionIDMarker, maxKeys) ==
    [done |-> TRUE, Prefix |-> prefix, Delimiter |-> delimiter,
     KeyMarker |-> keyMarker, VersionIDMarker |-> versionIDMarker,
     MaxKeys |-> maxKeys]

\* One call with any parameters.
List(prefix, delimiter, keyMarker, versionIDMarker, maxKeys) ==
    /\ pc = "idle"
    /\ stored # {}
    /\ req' = Request(prefix, delimiter, keyMarker, versionIDMarker, maxKeys)
    /\ res' = ListObjectVersions(stored, req')
    /\ pc' = "listed"
    /\ UNCHANGED <<stored, acc, pathVars, treeVars, credVars>>

\* The paging client's first call: no markers.
FirstPage(prefix, delimiter, maxKeys) ==
    /\ pc = "idle"
    /\ stored # {}
    /\ req' = Request(prefix, delimiter, <<>>, <<>>, maxKeys)
    /\ res' = ListObjectVersions(stored, req')
    /\ acc' = res'.objects
    /\ pc' = IF res'.IsTruncated THEN "paging" ELSE "done"
    /\ UNCHANGED <<stored, pathVars, treeVars, credVars>>

\* The paging client's next call: the previous page's Next markers. A client
\* that already holds more entries than are stored stops.
NextPage ==
    /\ pc = "paging"
    /\ Len(acc) <= Cardinality(stored)
    /\ req' = [req EXCEPT !.KeyMarker = res.NextKeyMarker,
                          !.VersionIDMarker = res.NextVersionIDMarker]
    /\ res' = ListObjectVersions(stored, req')
    /\ acc' = acc \o res'.objects
    /\ pc' = IF res'.IsTruncated THEN "paging" ELSE "done"
    /\ UNCHANGED <<stored, pathVars, treeVars, credVars>>

InitList == PathIdle /\ ListIdle /\ TreeIdle /\ CredIdle

NextList ==
    \/ \E name \in ListNames, oid \in OIDs, dm \in BOOLEAN :
            PutVersion(name, oid, dm)
    \/ \E prefix \in ListPrefixes, delimiter \in ListDelimiters,
          km \in ListNames \cup {<<>>}, vm \in OIDs \cup {<<>>},
          mk \in 0..MaxKeysBound :
            List(prefix, delimiter, km, vm, mk)
    \/ \E prefix \in ListPrefixes, delimiter \in ListDelimiters,
          mk \in 1..MaxKeysBound :
            FirstPage(prefix, delimiter, mk)
    \/ NextPage

SpecList == InitList /\ [][NextList]_vars

(***************************************************************************)
(* Spec: versions are added to the version tree of one bucket              *)
(*                                                                         *)
(* unv follows the current run of unversioned AddVersion calls for one     *)
(* key: its length, the key, whether the path held no version when the run *)
(* began, the node the first call left the version in, and the last OID.   *)
(* Any other write ends the run.                                           *)
(***************************************************************************)

AddVersion(filepath, objID, isUnversioned, isDeleteMarker) ==
    /\ clock < MaxClock
    /\ \E out \in {addVersion(trees[versionTree],
                              [FilePath |-> filepath, OID |-> objID,
                               Size |-> 7, ETag |-> "etag",
                               IsUnversioned |-> isUnversioned,
                               IsDeleteMarker |-> isDeleteMarker,
                               Owner |-> "owner", Created |-> clock],
                              clock)} :
        /\ trees' = [trees EXCEPT ![versionTree] = out.tree]
        /\ clock' = out.clock
        /\ ret' = [op |-> "AddVersion", err |-> out.err, call |-> out.call]
        /\ unv' = IF ~isUnversioned \/ out.err # NoError THEN NoRun
                  ELSE IF unv.n >= 1 /\ unv.key = filepath
                  THEN [unv EXCEPT !.n = @ + 1, !.lastOID = objID]
                  ELSE [n       |-> 1,
                        key     |-> filepath,
                        fresh   |-> VersionNodesAt(trees[versionTree],
                                                   filepath) = {},
                        firstId |-> out.node,
                        lastOID |-> objID]
    /\ UNCHANGED <<parts, sideVars, pathVars, listVars, credVars>>

Init == PathIdle /\ ListIdle /\ TreeIdle /\ CredIdle

Next ==
    \E filepath \in TreeKeys, objID \in TreeOIDs,
       isUnversioned \in BOOLEAN, isDeleteMarker \in BOOLEAN :
        AddVersion(filepath, objID, isUnversioned, isDeleteMarker)

Spec == Init /\ [][Next]_vars

(***************************************************************************)
(* SpecMultipart: uploads are created in the system tree and parts are    *)
(* added to them                                                           *)
(*                                                                         *)
(* parts remembers, for every upload node and part number, the OID of the  *)
(* last AddPart call; ret holds what the last call was given and returned. *)
(* hist.uploads holds the key and upload id of every upload created,       *)
(* hist.stored the PartInfo each part node was last written with.          *)
(***************************************************************************)

CreateMultipartUpload(objKey, uploadID) ==
    /\ clock < MaxClock
    /\ LET info == [Key |-> objKey, UploadID |-> uploadID,
                    Owner |-> "owner", Created |-> clock]
           p    == pathFromName(objKey)
           dir  == SubSeq(p, 1, Len(p) - 1)
           tree == trees[systemTree]
       IN  /\ trees' = [trees EXCEPT ![systemTree] =
                            addNodeByPath(tree, dir, metaFromMultipart(info),
                                          clock)]
           /\ clock' = clock + byPathTicks(tree, dir)
    /\ ret' = [op |-> "CreateMultipartUpload", err |-> NoError]
    /\ hist' = [hist EXCEPT !.uploads =
                    @ \cup {[Key |-> objKey, UploadID |-> uploadID]}]
    /\ UNCHANGED <<parts, unv, inflight, pathVars, listVars, credVars>>

\* The upload nodes of the system tree.
Uploads == {n.id : n \in {m \in trees[systemTree] : Has(m.meta, uploadIDKV)}}

AddPart(multipartNodeID, number, objID, stream) ==
    /\ clock < MaxClock
    /\ LET info == [Number |-> number, OID |-> objID, Size |-> 7,
                    ETag |-> "etag", Created |-> clock]
           tree == trees[systemTree]
           out  == addPart(tree, multipartNodeID, info, stream, clock)
           prev == {e \in parts : e.root = multipartNodeID
                                    /\ e.Number = number}
       IN  /\ trees' = [trees EXCEPT ![systemTree] = out.tree]
           /\ ret' = [op      |-> "AddPart",
                      existed |-> prev # {},
                      oldOID  |-> IF prev = {} THEN emptyOID
                                  ELSE (CHOOSE e \in prev : TRUE).OID,
                      oid     |-> out.oid,
                      err     |-> out.err]
           /\ parts' = (parts \ prev)
                         \cup {[root |-> multipartNodeID, Number |-> number,
                                OID |-> objID]}
           /\ hist' = [hist EXCEPT !.stored =
                          [id \in {n.id : n \in out.tree \ tree} |-> info]
                            @@ @]
    /\ clock' = clock + 1
    /\ UNCHANGED <<unv, inflight, pathVars, listVars, credVars>>

InitMultipart == PathIdle /\ ListIdle /\ TreeIdle /\ CredIdle

NextMultipart ==
    \/ \E objKey \in UploadKeys, uploadID \in UploadIDs :
            CreateMultipartUpload(objKey, uploadID)
    \/ \E multipartNodeID \in Uploads, number \in PartNumbers,
          objID \in TreeOIDs :
            \E stream \in getSubTree(trees[systemTree], multipartNodeID, 1) :
                AddPart(multipartNodeID, number, objID, stream)

SpecMultipart == InitMultipart /\ [][NextMultipart]_vars

(***************************************************************************)
(* SpecPrefix: versions are added to the version tree, and the versions    *)
(* under a prefix are read, in every order the backend may stream the      *)
(* subtrees in                                                             *)
(***************************************************************************)

PrefixKeys == {<<"a">>, <<"a", "/", "b">>, <<"a", "/">>}
PrefixOIDs == {<<"x">>}
Prefixes == {<<>>, <<"a">>, <<"a", "/">>, <<"a", "/", "<">>}

GetVersionsByPrefix(prefix, latestOnly) ==
    /\ trees[versionTree] # {}
    /\ \E out \in getVersionsByPrefix(trees[versionTree], prefix, latestOnly) :
        ret' = [op |-> "getVersionsByPrefix", prefix |-> prefix,
                latestOnly |-> latestOnly, err |-> out.err,
                versions |-> out.versions]
    /\ UNCHANGED <<trees, clock, parts, unv, sideVars, pathVars, listVars, credVars>>

InitPrefix == PathIdle /\ ListIdle /\ TreeIdle /\ CredIdle

NextPrefix ==
    \/ \E filepath \in PrefixKeys, objID \in PrefixOIDs,
          isDeleteMarker \in BOOLEAN :
            AddVersion(filepath, objID, FALSE, isDeleteMarker)
    \/ \E prefix \in Prefixes, latestOnly \in BOOLEAN :
            GetVersionsByPrefix(prefix, latestOnly)

SpecPrefix == InitPrefix /\ [][NextPrefix]_vars

(***************************************************************************)
(* SpecSidecar: tags and locks are put on the versions of one key, one     *)
(* call after the other, and read back                                     *)
(*                                                                         *)
(* ret holds what the last call was given, the sidecars the version had    *)
(* before it, and what it returned.                                        *)
(***************************************************************************)

SidecarKey == <<"a">>
SidecarOID == <<"x">>
LockOIDs == {<<"y">>}
TagSets == {EmptyMeta, ("k" :> "v1"), ("k" :> "v2") @@ ("User-Tag-k" :> "v1")}

\* The version nodes of the version tree, and the sidecars of one of them.
Versions == {n.id : n \in {m \in trees[versionTree] : Has(m.meta, oidKV)}}
TagChildren(tree, versionID) ==
    {n.id : n \in {m \in tree : m.parent = versionID /\ Has(m.meta, isTagKV)}}
LockChildren(tree, nodeID) ==
    {n.id : n \in {m \in tree : m.parent = nodeID /\ Has(m.meta, isLockKV)}}

\* The LockInfo values a caller may hand to PutLock: a new one or one that
\* GetLock returned, as it is or after one of the setters.
LockInputs(tree, nodeID) ==
    LET bases == {NewLockInfo(0)}
                    \cup {GetLock(s) : s \in getSubTree(tree, nodeID, 1)}
    IN  bases
        \cup {SetLegalHold(b, o) : b \in bases, o \in LockOIDs}
        \cup {ResetLegalHold(b) : b \in bases}
        \cup {SetRetention(b, o, "d1", c)
                : b \in bases, o \in LockOIDs, c \in BOOLEAN}

\* The inputs of SpecSidecarRace: fewer tag sets, and the LockInfo values as
\* GetLock returned them or new.
RaceTagSets == {EmptyMeta, ("k" :> "v1")}
RaceLockInputs(tree, nodeID) ==
    {NewLockInfo(0)} \cup {GetLock(s) : s \in getSubTree(tree, nodeID, 1)}

Busy == \E t \in Tasks : inflight[t].pc # "idle"

PutObjectTagging(versionID, tagSet, stream) ==
    /\ clock < MaxClock
    /\ ~Busy
    /\ trees' = [trees EXCEPT ![versionTree] =
                    putObjectTagging(@, versionID, tagSet, stream, clock)]
    /\ clock' = clock + 1
    /\ ret' = [op |-> "PutObjectTagging", version |-> versionID,
               tagSet |-> tagSet,
               before |-> TagChildren(trees[versionTree], versionID),
               err |-> NoError]
    /\ UNCHANGED <<parts, unv, sideVars, pathVars, listVars, credVars>>

DeleteObjectTagging(versionID, stream) ==
    /\ trees' = [trees EXCEPT ![versionTree] = deleteObjectTagging(@, stream)]
    /\ ret' = [op |-> "DeleteObjectTagging", version |-> versionID,
               err |-> NoError]
    /\ hist' = [hist EXCEPT !.raced = @ \/ Busy]
    /\ UNCHANGED <<clock, parts, unv, inflight, pathVars, listVars, credVars>>

PutLock(nodeID, lock) ==
    /\ clock < MaxClock
    /\ trees' = [trees EXCEPT ![versionTree] =
                    putLock(@, nodeID, lock, clock)]
    /\ clock' = clock + 1
    /\ ret' = [op |-> "PutLock", node |-> nodeID, lock |-> lock,
               before |-> LockChildren(trees[versionTree], nodeID),
               err |-> NoError]
    /\ hist' = [hist EXCEPT !.stray =
                    @ \/ LockChildren(trees[versionTree], nodeID)
                            # (IF lock.id = 0 THEN {} ELSE {lock.id})]
    /\ UNCHANGED <<parts, unv, inflight, pathVars, listVars, credVars>>

ReadObjectTaggingAndLock(versionID, stream) ==
    /\ ret' = [op |-> "GetObjectTaggingAndLock", version |-> versionID,
               stream |-> stream, err |-> NoError,
               out |-> GetObjectTaggingAndLock(stream)]
    /\ UNCHANGED <<trees, clock, parts, unv, sideVars, pathVars, listVars, credVars>>

InitSidecar == PathIdle /\ ListIdle /\ TreeIdle /\ CredIdle

NextSidecar ==
    \/ AddVersion(SidecarKey, SidecarOID, FALSE, FALSE)
    \/ \E versionID \in Versions :
        \E stream \in getSubTree(trees[versionTree], versionID, 1) :
            \/ \E tagSet \in TagSets :
                    PutObjectTagging(versionID, tagSet, stream)
            \/ DeleteObjectTagging(versionID, stream)
            \/ ReadObjectTaggingAndLock(versionID, stream)
    \/ \E nodeID \in Versions :
        \E lock \in LockInputs(trees[versionTree], nodeID) :
            PutLock(nodeID, lock)

SpecSidecar == InitSidecar /\ [][NextSidecar]_vars

(***************************************************************************)
(* SpecSidecarRace: the same calls made by tasks that run side by side: a  *)
(* PutObjectTagging call looks for the tag node in one step and issues its *)
(* backend call in a later one                                             *)
(***************************************************************************)

FetchTagNode(t, versionID, tagSet, stream) ==
    /\ inflight[t].pc = "idle"
    /\ inflight' = [inflight EXCEPT ![t] =
                        [pc |-> "fetched", version |-> versionID,
                         tagSet |-> tagSet,
                         tagNode |-> getTreeNode(stream, isTagKV)]]
    /\ hist' = [hist EXCEPT !.raced = @ \/ Busy]
    /\ UNCHANGED <<trees, clock, ret, parts, unv, pathVars, listVars, credVars>>

IssueTagPut(t) ==
    /\ inflight[t].pc = "fetched"
    /\ clock < MaxClock
    /\ trees' = [trees EXCEPT ![versionTree] =
                    putTagNode(@, inflight[t].version, inflight[t].tagSet,
                               inflight[t].tagNode, clock)]
    /\ clock' = clock + 1
    /\ ret' = [op |-> "PutObjectTagging", version |-> inflight[t].version,
               tagSet |-> inflight[t].tagSet,
               before |-> TagChildren(trees[versionTree],
                                      inflight[t].version),
               err |-> NoError]
    /\ inflight' = [inflight EXCEPT ![t] = NoCall]
    /\ UNCHANGED <<parts, unv, hist, pathVars, listVars, credVars>>

InitSidecarRace == PathIdle /\ ListIdle /\ TreeIdle /\ CredIdle

NextSidecarRace ==
    \/ AddVersion(SidecarKey, SidecarOID, FALSE, FALSE)
    \/ \E versionID \in Versions :
        \E stream \in getSubTree(trees[versionTree], versionID, 1) :
            \/ \E t \in Tasks, tagSet \in RaceTagSets :
                    FetchTagNode(t, versionID, tagSet, stream)
            \/ DeleteObjectTagging(versionID, stream)
    \/ \E t \in Tasks : IssueTagPut(t)
    \/ \E nodeID \in Versions :
        \E lock \in RaceLockInputs(trees[versionTree], nodeID) :
            PutLock(nodeID, lock)

SpecSidecarRace == InitSidecarRace /\ [][NextSidecarRace]_vars

(***************************************************************************)
(* SpecSystem: the singletons of the system tree of one bucket are put,    *)
(* read and deleted, one call after the other                              *)
(*                                                                         *)
(* hist.puts holds, for every singleton put since it was last absent, the  *)
(* nodes its first put created and the value of its last put. ret holds    *)
(* what the last call returned and the tree it found.                      *)
(***************************************************************************)

SystemOIDs == {<<"x">>, <<"y">>}
SystemTagSets == {EmptyMeta, ("k" :> "v2") @@ ("User-Tag-k" :> "v1")}

\* The lock configurations a caller may hand over: none, one with nothing
\* but the flag, one whose rule has no default retention, a full one.
LockFlagOnly == [EmptyLockConfiguration EXCEPT !.ObjectLockEnabled = <<"E">>]
LockConfigurations ==
    {NilLockConfiguration,
     LockFlagOnly,
     [LockFlagOnly EXCEPT !.Rule.nil = FALSE],
     [LockFlagOnly EXCEPT !.Rule =
        [nil |-> FALSE,
         DefaultRetention |-> [nil |-> FALSE, Days |-> 1, Mode |-> <<"G">>,
                               Years |-> 0]]]}
SystemSettings ==
    {[Versioning |-> IF conf.nil THEN VersioningUnversioned ELSE <<"E">>,
      LockConfiguration |-> conf] : conf \in LockConfigurations}

Singletons ==
    ("settings" :> settingsFileName) @@ ("notifications" :> notifConfFileName)
        @@ ("cors" :> corsFilename) @@ ("tagging" :> bucketTaggingFilename)

\* The ids of the nodes of a tree, and of those at the root with a name.
IDs(tree) == {n.id : n \in tree}
RootNamed(tree, fileName) == IDs(Named(tree, 0, fileName))

\* hist after a put of singleton s with value: the nodes the put created
\* are kept from the first put on.
AfterPut(s, value, created) ==
    [hist EXCEPT !.puts =
        (s :> [first |-> IF s \in DOMAIN @ THEN @[s].first ELSE created,
               last  |-> value]) @@ @]

\* hist after a delete of singleton s.
AfterDelete(s) ==
    [hist EXCEPT !.puts = [t \in DOMAIN @ \ {s} |-> @[t]]]

DoPutSettingsNode(settings) ==
    /\ clock < MaxClock
    /\ \E out \in {PutSettingsNode(trees[systemTree], settings, clock)} :
        /\ trees' = [trees EXCEPT ![systemTree] = out.tree]
        /\ ret' = [op |-> "PutSettingsNode", err |-> out.err,
                   before |-> trees[systemTree]]
        /\ hist' = AfterPut("settings", settings,
                       IDs(out.tree) \ IDs(trees[systemTree]))
    /\ clock' = clock + 1
    /\ UNCHANGED <<parts, unv, inflight, pathVars, listVars, credVars>>

DoPutPointer(s, objID) ==
    /\ clock < MaxClock
    /\ \E out \in {IF s = "cors"
                   THEN PutBucketCORS(trees[systemTree], objID, clock)
                   ELSE PutNotificationConfigurationNode(trees[systemTree],
                                                         objID, clock)} :
        /\ trees' = [trees EXCEPT ![systemTree] = out.tree]
        /\ ret' = [op |-> IF s = "cors" THEN "PutBucketCORS"
                          ELSE "PutNotificationConfigurationNode",
                   err |-> out.err, oid |-> out.oid,
                   before |-> trees[systemTree]]
        /\ hist' = AfterPut(s, objID, IDs(out.tree) \ IDs(trees[systemTree]))
    /\ clock' = clock + 1
    /\ UNCHANGED <<parts, unv, inflight, pathVars, listVars, credVars>>

DoPutBucketTagging(tagSet) ==
    /\ clock < MaxClock
    /\ \E out \in {PutBucketTagging(trees[systemTree], tagSet, clock)} :
        /\ trees' = [trees EXCEPT ![systemTree] = out.tree]
        /\ ret' = [op |-> "PutBucketTagging", err |-> out.err,
                   before |-> trees[systemTree]]
        /\ hist' = AfterPut("tagging", tagSet,
                       IDs(out.tree) \ IDs(trees[systemTree]))
    /\ clock' = clock + 1
    /\ UNCHANGED <<parts, unv, inflight, pathVars, listVars, credVars>>

DoDeleteBucketCORS ==
    /\ \E out \in {DeleteBucketCORS(trees[systemTree])} :
        /\ trees' = [trees EXCEPT ![systemTree] = out.tree]
        /\ ret' = [op |-> "DeleteBucketCORS", err |-> out.err,
                   oid |-> out.oid, before |-> trees[systemTree]]
    /\ hist' = AfterDelete("cors")
    /\ UNCHANGED <<clock, parts, unv, inflight, pathVars, listVars, credVars>>

DoDeleteBucketTagging ==
    /\ \E out \in {DeleteBucketTagging(trees[systemTree])} :
        /\ trees' = [trees EXCEPT ![systemTree] = out.tree]
        /\ ret' = [op |-> "DeleteBucketTagging", err |-> out.err,
                   before |-> trees[systemTree]]
    /\ hist' = AfterDelete("tagging")
    /\ UNCHANGED <<clock, parts, unv, inflight, pathVars, listVars, credVars>>

\* What the get of singleton s returns.
GetSingleton(tree, s) ==
    CASE s = "settings" -> GetSettingsNode(tree)
      [] s = "notifications" -> GetNotificationConfigurationNode(tree)
      [] s = "cors" -> GetBucketCORS(tree)
      [] s = "tagging" -> GetBucketTagging(tree)

DoGet(s) ==
    /\ ret' = [op |-> "Get", singleton |-> s,
               out |-> GetSingleton(trees[systemTree], s),
               before |-> trees[systemTree]]
    /\ UNCHANGED <<trees, clock, parts, unv, sideVars, pathVars, listVars, credVars>>

InitSystem == PathIdle /\ ListIdle /\ TreeIdle /\ CredIdle

NextSystem ==
    \/ \E settings \in SystemSettings : DoPutSettingsNode(settings)
    \/ \E s \in {"cors", "notifications"}, objID \in SystemOIDs :
            DoPutPointer(s, objID)
    \/ \E tagSet \in SystemTagSets : DoPutBucketTagging(tagSet)
    \/ DoDeleteBucketCORS
    \/ DoDeleteBucketTagging
    \/ \E s \in DOMAIN Singletons : DoGet(s)

SpecSystem == InitSystem /\ [][NextSystem]_vars

(***************************************************************************)
(* SpecSettings: the settings are put and read in a bucket where an upload *)
(* may have been created for the key bucket-settings: its node sits at the *)
(* root of the system tree under that FileName, with no Versioning key     *)
(***************************************************************************)

InitSettings == PathIdle /\ ListIdle /\ TreeIdle /\ CredIdle

NextSettings ==
    \/ \E uploadID \in UploadIDs :
            CreateMultipartUpload(settingsFileName, uploadID)
    \/ \E settings \in SystemSettings : DoPutSettingsNode(settings)
    \/ DoGet("settings")

SpecSettings == InitSettings /\ [][NextSettings]_vars

(***************************************************************************)
(* SpecLockCodec: a lock configuration is encoded and the value parsed     *)
(* back; values that were not encoded are parsed as well                   *)
(***************************************************************************)

CodecFlags == {<<>>, <<"E">>, <<"E", "n">>}
CodecNumbers == {0, 1, 10, 365}
CodecModes == {<<>>, <<"G">>, <<"C", "O">>}

\* The configurations: nil, and an enabled flag with an optional rule that
\* has a default retention of days, mode and years.
CodecConfigurations ==
    {NilLockConfiguration}
        \cup {[EmptyLockConfiguration EXCEPT !.ObjectLockEnabled = f]
                : f \in CodecFlags}
        \cup {[nil |-> FALSE, ObjectLockEnabled |-> f,
               Rule |-> [nil |-> FALSE,
                         DefaultRetention |->
                            [nil |-> FALSE, Days |-> d, Mode |-> m,
                             Years |-> y]]]
                : f \in CodecFlags, d \in CodecNumbers, m \in CodecModes,
                  y \in CodecNumbers}

\* Values of the LockConfiguration key that no encoding gives.
CodecTexts ==
    {<<>>, <<"E", ",", "1">>, <<"E", ",", "x", ",", "G", ",", "1">>,
     <<"E", ",", ",", "G", ",">>, <<"E", ",", "1", ",", "G", ",", "y">>}

Encode(conf) ==
    /\ ret.op = "none"
    /\ ret' = [op |-> "encode", conf |-> conf,
               value |-> encodeLockConfiguration(conf)]
    /\ UNCHANGED <<trees, clock, parts, unv, sideVars, pathVars, listVars, credVars>>

Parse ==
    /\ ret.op = "encode"
    /\ ret' = [op |-> "parse", conf |-> ret.conf, value |-> ret.value,
               out |-> parseLockConfiguration(ret.value)]
    /\ UNCHANGED <<trees, clock, parts, unv, sideVars, pathVars, listVars, credVars>>

ParseText(value) ==
    /\ ret.op = "none"
    /\ ret' = [op |-> "parseText", value |-> value,
               out |-> parseLockConfiguration(value)]
    /\ UNCHANGED <<trees, clock, parts, unv, sideVars, pathVars, listVars, credVars>>

InitLockCodec == PathIdle /\ ListIdle /\ TreeIdle /\ CredIdle

NextLockCodec ==
    \/ \E conf \in CodecConfigurations : Encode(conf)
    \/ Parse
    \/ \E value \in CodecTexts : ParseText(value)

SpecLockCodec == InitLockCodec /\ [][NextLockCodec]_vars

(***************************************************************************)
(* SpecUploads: uploads are created, a part is added, the CORS pointer is  *)
(* put, and uploads are looked up by key and id and listed by prefix       *)
(***************************************************************************)

UploadPrefixes ==
    {<<>>, <<"a">>, <<"a", "/">>, <<"a", "/", "b">>, <<"b">>, <<"c", "/">>}

GetMultipartUpload(objectName, uploadID) ==
    /\ \E out \in getMultipartUpload(trees[systemTree], objectName, uploadID) :
        ret' = [op |-> "GetMultipartUpload", key |-> objectName,
                uploadID |-> uploadID, err |-> out.err, info |-> out.info]
    /\ UNCHANGED <<trees, clock, parts, unv, sideVars, pathVars, listVars, credVars>>

GetMultipartUploadsByPrefix(prefix) ==
    /\ \E out \in getMultipartUploadsByPrefix(trees[systemTree], prefix) :
        ret' = [op |-> "GetMultipartUploadsByPrefix", prefix |-> prefix,
                err |-> out.err, uploads |-> out.uploads]
    /\ UNCHANGED <<trees, clock, parts, unv, sideVars, pathVars, listVars, credVars>>

InitUploads == PathIdle /\ ListIdle /\ TreeIdle /\ CredIdle

NextUploads ==
    \/ \E objKey \in UploadKeys, uploadID \in UploadIDs :
            CreateMultipartUpload(objKey, uploadID)
    \/ \E multipartNodeID \in Uploads :
            \E stream \in getSubTree(trees[systemTree], multipartNodeID, 1) :
                AddPart(multipartNodeID, 1, <<"x">>, stream)
    \/ DoPutPointer("cors", <<"x">>)
    \/ \E objectName \in UploadKeys, uploadID \in UploadIDs :
            GetMultipartUpload(objectName, uploadID)
    \/ \E prefix \in UploadPrefixes : GetMultipartUploadsByPrefix(prefix)

SpecUploads == InitUploads /\ [][NextUploads]_vars

(***************************************************************************)
(* SpecParts: parts are added to one upload, some with a number that is no *)
(* part number, and the parts are read                                     *)
(***************************************************************************)

PartsKey == <<"a">>
AnyNumbers == {0, 1, 2}

GetParts(multipartNodeID, stream) ==
    /\ \E out \in {getParts(stream, multipartNodeID)} :
        ret' = [op |-> "GetParts", root |-> multipartNodeID,
                err |-> out.err, parts |-> out.parts]
    /\ UNCHANGED <<trees, clock, parts, unv, sideVars, pathVars, listVars, credVars>>

InitParts == PathIdle /\ ListIdle /\ TreeIdle /\ CredIdle

NextParts ==
    \/ \E uploadID \in UploadIDs : CreateMultipartUpload(PartsKey, uploadID)
    \/ \E multipartNodeID \in Uploads :
        \E stream \in getSubTree(trees[systemTree], multipartNodeID, 1) :
            \/ \E number \in AnyNumbers, objID \in TreeOIDs :
                    AddPart(multipartNodeID, number, objID, stream)
            \/ GetParts(multipartNodeID, stream)

SpecParts == InitParts /\ [][NextParts]_vars

(***************************************************************************)
(* SpecVersionRace: unversioned AddVersion calls for one key made by tasks *)
(* that run side by side: a call looks for the unversioned node in one     *)
(* step and issues its backend call in a later one; calls made in one step *)
(* and GetUnversioned go on beside them                                    *)
(*                                                                         *)
(* hist.raced tells that a call found no unversioned node while another    *)
(* call that had found none had not yet issued its add.                    *)
(***************************************************************************)

RaceKey == <<"a", "/", "b">>

\* The unversioned nodes at the path of a key.
UnversionedAt(tree, filepath) ==
    {n \in VersionNodesAt(tree, filepath) : Has(n.meta, isUnversionedKV)}

\* Task t has found no unversioned node of the key and not yet added.
FoundAbsent(t) ==
    /\ inflight[t].pc = "planned"
    /\ inflight[t].plan.call = "addByPath"

PlanAddVersion(t, objID) ==
    /\ inflight[t].pc = "idle"
    /\ \E version \in {[FilePath |-> RaceKey, OID |-> objID, Size |-> 7,
                        ETag |-> "etag", IsUnversioned |-> TRUE,
                        IsDeleteMarker |-> FALSE, Owner |-> "owner",
                        Created |-> clock]} :
        \E plan \in {addVersionCall(trees[versionTree], version)} :
            /\ inflight' = [inflight EXCEPT ![t] =
                                [pc |-> "planned", version |-> version,
                                 plan |-> plan]]
            /\ hist' = [hist EXCEPT !.raced =
                            @ \/ (plan.call = "addByPath"
                                    /\ \E u \in Tasks \ {t} : FoundAbsent(u))]
    /\ UNCHANGED <<trees, clock, ret, parts, unv, pathVars, listVars, credVars>>

IssueAddVersion(t) ==
    /\ inflight[t].pc = "planned"
    /\ clock < MaxClock
    /\ \E out \in {issue(trees[versionTree],
                         SubSeq(pathFromName(inflight[t].version.FilePath), 1,
                                Len(pathFromName(
                                        inflight[t].version.FilePath)) - 1),
                         versionMeta(inflight[t].version), clock,
                         inflight[t].plan)} :
        /\ trees' = [trees EXCEPT ![versionTree] = out.tree]
        /\ clock' = out.clock
        /\ ret' = [op |-> "AddVersion", err |-> out.err, call |-> out.call]
    /\ inflight' = [inflight EXCEPT ![t] = NoCall]
    /\ UNCHANGED <<parts, unv, hist, pathVars, listVars, credVars>>

GetUnversioned(filepath) ==
    /\ \E out \in {getUnversioned(trees[versionTree], filepath)} :
        ret' = [op |-> "GetUnversioned", err |-> out.err, ID |-> out.ID]
    /\ UNCHANGED <<trees, clock, parts, unv, sideVars, pathVars, listVars, credVars>>

InitVersionRace == PathIdle /\ ListIdle /\ TreeIdle /\ CredIdle

NextVersionRace ==
    \/ \E t \in Tasks, objID \in TreeOIDs : PlanAddVersion(t, objID)
    \/ \E t \in Tasks : IssueAddVersion(t)
    \/ \E objID \in TreeOIDs : AddVersion(RaceKey, objID, TRUE, FALSE)
    \/ GetUnversioned(RaceKey)

SpecVersionRace == InitVersionRace /\ [][NextVersionRace]_vars

(***************************************************************************)
(* SpecTraversal: the versions of the subtree of a node are read from a    *)
(* stream that begins with the node and goes on with the other nodes of    *)
(* the subtree in any order: the loop does not rely on the order the       *)
(* backend keeps                                                           *)
(***************************************************************************)

TraversalKeys == {<<"a", "/", "b">>, <<"a", "/", "b", "/", "c">>,
                  <<"a", "/", "b", "/">>}

\* The streams of a subtree that begin with its root.
RECURSIVE anyOrder(_, _)
anyOrder(sent, rest) ==
    IF rest = {} THEN {sent}
    ELSE UNION {anyOrder(Append(sent, n), rest \ {n}) : n \in rest}

RootFirst(tree, nodeID) ==
    anyOrder(<<NodeByID(tree, nodeID)>>,
             SubTreeNodes(tree, nodeID, maxGetSubTreeDepth)
                \ {NodeByID(tree, nodeID)})

\* The nodes a listing reads the subtree of: those with a FileName under
\* the root or under an intermediate node.
PrefixNodes(tree) ==
    {n \in tree : /\ Has(n.meta, fileNameKV)
                  /\ n.parent = 0 \/ isIntermediate(NodeByID(tree, n.parent))}

\* The parentFilePath a listing hands over for a node: the key of its
\* directory with a '/' after it, none for the root; and the same without
\* the '/'.
ParentFilePaths(tree, node) ==
    IF node.parent = 0 THEN {<<>>}
    ELSE {nameFromPath(PathTo(tree, node.parent)) \o separator,
          nameFromPath(PathTo(tree, node.parent))}

GetSubTreeVersions(nodeID, parentFilePath, stream, latestOnly) ==
    /\ \E out \in {subTreeVersionsOf(stream, parentFilePath, latestOnly)} :
        ret' = [op |-> "getSubTreeVersions", node |-> nodeID,
                parentFilePath |-> parentFilePath, stream |-> stream,
                latestOnly |-> latestOnly, err |-> out.err,
                versions |-> out.versions]
    /\ UNCHANGED <<trees, clock, parts, unv, sideVars, pathVars, listVars, credVars>>

InitTraversal == PathIdle /\ ListIdle /\ TreeIdle /\ CredIdle

NextTraversal ==
    \/ \E filepath \in TraversalKeys :
            AddVersion(filepath, <<"x">>, FALSE, FALSE)
    \/ \E node \in PrefixNodes(trees[versionTree]), latestOnly \in BOOLEAN :
        \E parentFilePath \in ParentFilePaths(trees[versionTree], node),
           stream \in RootFirst(trees[versionTree], node.id) :
            GetSubTreeVersions(node.id, parentFilePath, stream, latestOnly)

SpecTraversal == InitTraversal /\ [][NextTraversal]_vars

(***************************************************************************)
(* SpecPrefixNode: the directory of a prefix is looked up in trees in      *)
(* which a path may hold several intermediate nodes of one name. The       *)
(* gateway does not lock (the backend is the arbiter between writers), and *)
(* an AddByPath served before the nodes another writer made for the same   *)
(* path are seen makes every node of the path anew.                        *)
(***************************************************************************)

\* AddByPath that sees none of the nodes of the path: each segment gets a
\* new intermediate node, the new node goes under the last of them.
addNodeByPathApart(tree, p, meta, c) ==
    tree \cup {[id |-> c + i, parent |-> IF i = 1 THEN 0 ELSE c + i - 1,
                ts |-> c + i, meta |-> (fileNameKV :> p[i])]
               : i \in 1..Len(p)}
         \cup {[id |-> c + Len(p) + 1,
                parent |-> IF p = <<>> THEN 0 ELSE c + Len(p),
                ts |-> c + Len(p) + 1, meta |-> meta]}

PrefixNodeKey == <<"a", "/", "b">>

PrefixNodePrefixes ==
    {<<>>, <<"a">>, <<"a", "/">>, <<"a", "/", "b">>, <<"b", "/">>,
     <<"a", "/", "b", "/", "c">>}

\* AddVersion of a versioned object whose AddByPath sees none of the nodes
\* of the path.
AddVersionApart(filepath, objID) ==
    /\ clock + Len(pathFromName(filepath)) <= MaxClock
    /\ LET p == pathFromName(filepath)
           dir == SubSeq(p, 1, Len(p) - 1)
           version == [FilePath |-> filepath, OID |-> objID, Size |-> 7,
                       ETag |-> "etag", IsUnversioned |-> FALSE,
                       IsDeleteMarker |-> FALSE, Owner |-> "owner",
                       Created |-> clock]
       IN  /\ trees' = [trees EXCEPT ![versionTree] =
                            addNodeByPathApart(@, dir, versionMeta(version),
                                               clock)]
           /\ clock' = clock + Len(p)
    /\ ret' = [op |-> "AddVersion", err |-> NoError, call |-> "addByPath"]
    /\ unv' = NoRun
    /\ UNCHANGED <<parts, sideVars, pathVars, listVars, credVars>>

\* CreateMultipartUpload whose AddByPath sees none of the nodes of the path.
CreateMultipartUploadApart(objKey, uploadID) ==
    /\ clock + Len(pathFromName(objKey)) <= MaxClock
    /\ LET p == pathFromName(objKey)
           dir == SubSeq(p, 1, Len(p) - 1)
           info == [Key |-> objKey, UploadID |-> uploadID,
                    Owner |-> "owner", Created |-> clock]
       IN  /\ trees' = [trees EXCEPT ![systemTree] =
                            addNodeByPathApart(@, dir, metaFromMultipart(info),
                                               clock)]
           /\ clock' = clock + Len(p)
    /\ ret' = [op |-> "CreateMultipartUpload", err |-> NoError]
    /\ hist' = [hist EXCEPT !.uploads =
                    @ \cup {[Key |-> objKey, UploadID |-> uploadID]}]
    /\ UNCHANGED <<parts, unv, inflight, pathVars, listVars, credVars>>

DeterminePrefixNode(treeID, prefix) ==
    /\ \E out \in {determinePrefixNode(trees[treeID], prefix)} :
        ret' = [op |-> "determinePrefixNode", treeID |-> treeID,
                prefix |-> prefix, err |-> out.err, rootID |-> out.rootID,
                tailPrefix |-> out.tailPrefix]
    /\ UNCHANGED <<trees, clock, parts, unv, sideVars, pathVars, listVars, credVars>>

InitPrefixNode == PathIdle /\ ListIdle /\ TreeIdle /\ CredIdle

NextPrefixNode ==
    \/ AddVersion(PrefixNodeKey, <<"x">>, FALSE, FALSE)
    \/ AddVersionApart(PrefixNodeKey, <<"y">>)
    \/ CreateMultipartUpload(PrefixNodeKey, "u1")
    \/ CreateMultipartUploadApart(PrefixNodeKey, "u2")
    \/ \E treeID \in {versionTree, systemTree},
          prefix \in PrefixNodePrefixes :
            DeterminePrefixNode(treeID, prefix)
    \/ \E prefix \in PrefixNodePrefixes, latestOnly \in BOOLEAN :
            GetVersionsByPrefix(prefix, latestOnly)
    \/ \E prefix \in PrefixNodePrefixes : GetMultipartUploadsByPrefix(prefix)

SpecPrefixNode == InitPrefixNode /\ [][NextPrefixNode]_vars

(***************************************************************************)
(* SpecDrain: getSubTree is called on the version tree while the backend   *)
(* may fail when the stream is opened or after any number of nodes, with   *)
(* one of a few messages, and ends the stream where it chooses.            *)
(***************************************************************************)

NotFoundMessages ==
    {<<"n", "o", "t", " ", "f", "o", "u", "n", "d">>,
     <<"t", "r", "e", "e", " ", "n", "o", "t", " ", "f", "o", "u", "n", "d",
       ":", " ", "7">>}

OtherMessages ==
    {<<"t", "i", "m", "e", "o", "u", "t">>,
     <<"N", "o", "t", " ", "F", "o", "u", "n", "d">>,
     <<"n", "o", "t", " ", "f", "o", "u", "n">>}

Messages == NotFoundMessages \cup OtherMessages

Failures == {Failure(message) : message \in Messages}

\* What Recv returns call after call: the first sent nodes of a stream,
\* then the end of the stream or an error.
Received(stream, sent, end) ==
    [i \in 1..(sent + 1) |->
        IF i <= sent THEN RecvBody(stream[i])
        ELSE IF end.failed THEN RecvError(end.message)
        ELSE RecvEOF]

GetSubTree(rootID, depth, signErr, open, stream, sent, end) ==
    /\ \E out \in {getSubTreeFrom(signErr, open,
                                  Received(stream, sent, end))} :
        ret' = [op |-> "getSubTree", rootID |-> rootID, depth |-> depth,
                signErr |-> signErr, open |-> open,
                streamed |-> SubSeq(stream, 1, sent), end |-> end,
                subtree |-> out.subtree, err |-> out.err]
    /\ UNCHANGED <<trees, clock, parts, unv, sideVars, pathVars, listVars, credVars>>

InitDrain == PathIdle /\ ListIdle /\ TreeIdle /\ CredIdle

\* The calls of getSubTree: signing fails and nothing is opened; opening
\* fails and nothing is received; or the stream is received up to its end
\* or up to an error.
NextDrain ==
    \/ AddVersion(<<"a", "/", "b">>, <<"x">>, FALSE, FALSE)
    \/ \E rootID \in {0} \cup {n.id : n \in trees[versionTree]},
          depth \in {1, maxGetSubTreeDepth} :
        \/ GetSubTree(rootID, depth, "failed to sign", NoFailure, <<>>, 0,
                      NoFailure)
        \/ \E open \in Failures :
            GetSubTree(rootID, depth, NoError, open, <<>>, 0, NoFailure)
        \/ \E stream \in getSubTree(trees[versionTree], rootID, depth) :
            \E sent \in 0..Len(stream), end \in {NoFailure} \cup Failures :
                GetSubTree(rootID, depth, NoError, NoFailure, stream, sent,
                           end)

SpecDrain == InitDrain /\ [][NextDrain]_vars

(***************************************************************************)
(* SpecLookup: the versions of a key and its latest version are looked up  *)
(* while signing may fail and GetNodeByPath may fail with one of a few     *)
(* messages instead of answering with the nodes at the path.               *)
(***************************************************************************)

LookupKeys == {<<"a">>, <<"a", "/", "b">>, <<"b">>}

SignFailed == NewError(<<"s", "i", "g", "n">>)

\* What GetNodeByPath returns: the nodes, or an error with a message.
Answered(nodes) == [failed |-> FALSE, message |-> <<>>, nodes |-> nodes]
Refused(message) == [failed |-> TRUE, message |-> message, nodes |-> {}]

VersionAttributes == {oidKV, isUnversionedKV, isDeleteMarkerKV, etagKV, sizeKV}

\* The replies of the backend to the lookup of a key.
Replies(filepath, latestOnly) ==
    {Answered(getNodes(trees[versionTree], pathFromName(filepath),
                       VersionAttributes, latestOnly, FALSE))}
        \cup {Refused(message) : message \in Messages}

GetVersions(filepath, signErr, reply) ==
    /\ \E out \in {getVersionsFrom(filepath, FALSE,
                                   getNodesFrom(signErr, reply))} :
        ret' = [op |-> "GetVersions", filepath |-> filepath,
                signErr |-> signErr, reply |-> reply,
                err |-> out.err, versions |-> out.versions]
    /\ UNCHANGED <<trees, clock, parts, unv, sideVars, pathVars, listVars, credVars>>

GetLatestVersion(objectName, signErr, reply) ==
    /\ \E out \in {latestVersionFrom(objectName,
                                     getNodesFrom(signErr, reply))} :
        ret' = [op |-> "GetLatestVersion", filepath |-> objectName,
                signErr |-> signErr, reply |-> reply,
                err |-> out.err, version |-> out.version]
    /\ UNCHANGED <<trees, clock, parts, unv, sideVars, pathVars, listVars, credVars>>

InitLookup == PathIdle /\ ListIdle /\ TreeIdle /\ CredIdle

NextLookup ==
    \/ \E filepath \in {<<"a">>, <<"a", "/", "b">>},
          isUnversioned \in BOOLEAN :
            AddVersion(filepath, <<"x">>, isUnversioned, FALSE)
    \/ \E filepath \in LookupKeys :
        \/ GetVersions(filepath, SignFailed, Answered({}))
        \/ \E reply \in Replies(filepath, FALSE) :
            GetVersions(filepath, NilError, reply)
    \/ \E objectName \in LookupKeys :
        \/ GetLatestVersion(objectName, SignFailed, Answered({}))
        \/ \E reply \in Replies(objectName, TRUE) :
            GetLatestVersion(objectName, NilError, reply)

SpecLookup == InitLookup /\ [][NextLookup]_vars

(***************************************************************************)
(* SpecWrites: every mutating operation of the tree client is called on    *)
(* both trees while each of its reads may fail with an error of the        *)
(* backend. ret holds the operation, whether a read of it failed, and the  *)
(* error it returned.                                                      *)
(***************************************************************************)

WritesKey == <<"a", "/", "b">>
WritesTagSets == {("k" :> "v1")}

\* The clock of the backend after a call: one tick for every node made and
\* for a move.
clockAfter(before, after, c) ==
    IF after = before THEN c
    ELSE IF {n.id : n \in after} \subseteq {n.id : n \in before}
    THEN IF Cardinality(after) = Cardinality(before) THEN c + 1 ELSE c
    ELSE c + Cardinality({n.id : n \in after} \ {n.id : n \in before})

\* The frame of a call of a mutating operation. The two trees are written
\* one after the other: the calls on the version tree come while the
\* system tree is empty.
Invoked(op, treeID, tree, err, readFailed) ==
    /\ treeID = versionTree => trees[systemTree] = {}
    /\ clockAfter(trees[treeID], tree, clock) <= MaxClock
    /\ trees' = [trees EXCEPT ![treeID] = tree]
    /\ clock' = clockAfter(trees[treeID], tree, clock)
    /\ ret' = [op |-> op, err |-> err, readFailed |-> readFailed]
    /\ UNCHANGED <<parts, unv, sideVars, pathVars, listVars, credVars>>

WriteAddVersion(isUnversioned, unversionedFailed, parentFailed) ==
    \E out \in {addVersionFrom(trees[versionTree],
                    [FilePath |-> WritesKey, OID |-> <<"x">>, Size |-> 7,
                     ETag |-> "etag", IsUnversioned |-> isUnversioned,
                     IsDeleteMarker |-> FALSE, Owner |-> "owner",
                     Created |-> clock],
                    clock, unversionedFailed, parentFailed)} :
        Invoked("AddVersion", versionTree, out.tree, out.err,
                /\ isUnversioned
                /\ \/ unversionedFailed
                   \/ getUnversioned(trees[versionTree], WritesKey).err
                        = ErrMoreThanOneUnversioned
                   \/ /\ getUnversioned(trees[versionTree], WritesKey).err
                            = NoError
                      /\ parentFailed)

WriteAddPart(multipartNodeID, failed) ==
    \E read \in subTreeRead(trees[systemTree], multipartNodeID, failed) :
        \E out \in {addPartFrom(trees[systemTree], multipartNodeID,
                                [Number |-> 1, OID |-> <<"x">>, Size |-> 7,
                                 ETag |-> "etag", Created |-> clock],
                                read, clock)} :
            Invoked("AddPart", systemTree, out.tree, out.err, failed)

WritePutObjectTagging(versionID, tagSet, failed) ==
    \E read \in subTreeRead(trees[versionTree], versionID, failed) :
        \E out \in {putObjectTaggingFrom(trees[versionTree], versionID,
                                         tagSet, read, clock)} :
            Invoked("PutObjectTagging", versionTree, out.tree, out.err,
                    failed)

WriteDeleteObjectTagging(versionID, failed) ==
    \E read \in subTreeRead(trees[versionTree], versionID, failed) :
        \E out \in {deleteObjectTaggingFrom(trees[versionTree], read)} :
            Invoked("DeleteObjectTagging", versionTree, out.tree, out.err,
                    failed)

WritePutLock(nodeID, lock) ==
    Invoked("PutLock", versionTree,
            putLock(trees[versionTree], nodeID, lock, clock), NoError, FALSE)

WritePutSettingsNode(settings, failed) ==
    \E out \in {putSettingsNode(trees[systemTree],
                    systemNodeRead(trees[systemTree], settingsFileName, {},
                                   failed),
                    settings, clock)} :
        Invoked("PutSettingsNode", systemTree, out.tree, out.err, failed)

WritePutPointer(op, fileName, failed) ==
    \E out \in {putPointer(trees[systemTree],
                    systemNodeRead(trees[systemTree], fileName, {oidKV},
                                   failed),
                    fileName, <<"x">>, clock)} :
        Invoked(op, systemTree, out.tree, out.err, failed)

WritePutBucketTagging(tagSet, failed) ==
    \E out \in {putBucketTagging(trees[systemTree],
                    systemNodeRead(trees[systemTree], bucketTaggingFilename,
                                   {}, failed),
                    tagSet, clock)} :
        Invoked("PutBucketTagging", systemTree, out.tree, out.err, failed)

WriteDeleteBucketCORS(failed) ==
    \E out \in {deleteBucketCORS(trees[systemTree],
                    systemNodeRead(trees[systemTree], corsFilename, {oidKV},
                                   failed))} :
        Invoked("DeleteBucketCORS", systemTree, out.tree, out.err, failed)

WriteDeleteBucketTagging(failed) ==
    \E out \in {deleteBucketTagging(trees[systemTree],
                    systemNodeRead(trees[systemTree], bucketTaggingFilename,
                                   {}, failed))} :
        Invoked("DeleteBucketTagging", systemTree, out.tree, out.err, failed)

\* The ids the callers hand over: of a node of the tree, or of none.
NodeIDs(tree) == {n.id : n \in tree} \cup {MaxClock + 1}

InitWrites == PathIdle /\ ListIdle /\ TreeIdle /\ CredIdle

NextWrites ==
    \/ \E isUnversioned \in BOOLEAN, unversionedFailed \in BOOLEAN,
          parentFailed \in BOOLEAN :
            WriteAddVersion(isUnversioned, unversionedFailed, parentFailed)
    \/ CreateMultipartUpload(<<"a">>, "u1")
    \/ \E multipartNodeID \in NodeIDs(trees[systemTree]), failed \in BOOLEAN :
            WriteAddPart(multipartNodeID, failed)
    \/ \E versionID \in NodeIDs(trees[versionTree]),
          tagSet \in WritesTagSets, failed \in BOOLEAN :
            WritePutObjectTagging(versionID, tagSet, failed)
    \/ \E versionID \in NodeIDs(trees[versionTree]), failed \in BOOLEAN :
            WriteDeleteObjectTagging(versionID, failed)
    \/ \E nodeID \in Versions :
        \E lock \in RaceLockInputs(trees[versionTree], nodeID) :
            WritePutLock(nodeID, lock)
    \/ \E settings \in {[Versioning |-> VersioningUnversioned,
                         LockConfiguration |-> NilLockConfiguration]},
          failed \in BOOLEAN :
            WritePutSettingsNode(settings, failed)
    \/ \E failed \in BOOLEAN :
        \/ WritePutPointer("PutBucketCORS", corsFilename, failed)
        \/ WritePutPointer("PutNotificationConfigurationNode",
                           notifConfFileName, failed)
        \/ WritePutBucketTagging(("k" :> "v1"), failed)
        \/ WriteDeleteBucketCORS(failed)
        \/ WriteDeleteBucketTagging(failed)

SpecWrites == InitWrites /\ [][NextWrites]_vars

(***************************************************************************)
(* SpecOverwrite: the unversioned object of one key is written again and   *)
(* again, as an object or as a delete marker, while tags and locks are put *)
(* on its node and read back.                                              *)
(***************************************************************************)

OverwriteKey == <<"a">>
OverwriteOIDs == {<<"x">>, <<"y">>}
OverwriteTagSets == {("k" :> "v1")}

InitOverwrite == PathIdle /\ ListIdle /\ TreeIdle /\ CredIdle

NextOverwrite ==
    \/ \E objID \in OverwriteOIDs, isDeleteMarker \in BOOLEAN :
            AddVersion(OverwriteKey, objID, TRUE, isDeleteMarker)
    \/ \E versionID \in Versions, tagSet \in OverwriteTagSets :
        \E stream \in getSubTree(trees[versionTree], versionID, 1) :
            PutObjectTagging(versionID, tagSet, stream)
    \/ \E nodeID \in Versions :
        \E lock \in {SetLegalHold(NewLockInfo(0), <<"h">>)}
                        \cup {GetLock(s)
                              : s \in getSubTree(trees[versionTree], nodeID, 1)} :
            PutLock(nodeID, lock)
    \/ \E versionID \in Versions :
        \E stream \in getSubTree(trees[versionTree], versionID, 1) :
            ReadObjectTaggingAndLock(versionID, stream)

SpecOverwrite == InitOverwrite /\ [][NextOverwrite]_vars

(***************************************************************************)
(* SpecPointers: the CORS pointer and the notification pointer of one      *)
(* bucket are put again and again, and the CORS pointer deleted            *)
(*                                                                         *)
(* hist.stored holds, for each pointer and since it was last absent, the   *)
(* OIDs the puts were given (puts) and the OIDs they returned (olds), in   *)
(* the order of the calls. ret holds what the last call returned, the tree *)
(* it found and the OIDs put before it.                                    *)
(***************************************************************************)

PointerOIDs == {<<"x">>, <<"y">>}
Pointers == {"cors", "notifications"}

NoPuts == [puts |-> <<>>, olds |-> <<>>]

\* What hist.stored holds of pointer s.
PutsOf(s) == IF s \in DOMAIN hist.stored THEN hist.stored[s] ELSE NoPuts

PutPointerLogged(s, objID) ==
    /\ clock < MaxClock
    /\ \E out \in {IF s = "cors"
                   THEN PutBucketCORS(trees[systemTree], objID, clock)
                   ELSE PutNotificationConfigurationNode(trees[systemTree],
                                                         objID, clock)} :
        /\ trees' = [trees EXCEPT ![systemTree] = out.tree]
        /\ ret' = [op |-> "put", pointer |-> s, objID |-> objID,
                   err |-> out.err, oid |-> out.oid,
                   before |-> trees[systemTree], earlier |-> PutsOf(s).puts]
        /\ hist' = [hist EXCEPT !.stored =
                        (s :> [puts |-> Append(PutsOf(s).puts, objID),
                               olds |-> Append(PutsOf(s).olds, out.oid)])
                            @@ @]
    /\ clock' = clock + 1
    /\ UNCHANGED <<parts, unv, inflight, pathVars, listVars, credVars>>

DeleteBucketCORSLogged ==
    /\ \E out \in {DeleteBucketCORS(trees[systemTree])} :
        /\ trees' = [trees EXCEPT ![systemTree] = out.tree]
        /\ ret' = [op |-> "delete", pointer |-> "cors", objID |-> emptyOID,
                   err |-> out.err, oid |-> out.oid,
                   before |-> trees[systemTree],
                   earlier |-> PutsOf("cors").puts]
    /\ hist' = [hist EXCEPT !.stored = [t \in DOMAIN @ \ {"cors"} |-> @[t]]]
    /\ UNCHANGED <<clock, parts, unv, inflight, pathVars, listVars, credVars>>

InitPointers == PathIdle /\ ListIdle /\ TreeIdle /\ CredIdle

NextPointers ==
    \/ \E s \in Pointers, objID \in PointerOIDs : PutPointerLogged(s, objID)
    \/ DeleteBucketCORSLogged

SpecPointers == InitPointers /\ [][NextPointers]_vars

(***************************************************************************)
(* SpecSingletonRace: the settings and the CORS pointer of one bucket are   *)
(* put by tasks that run side by side: a put looks its node up in one step *)
(* and issues its backend call in a later one; puts, gets and deletes made *)
(* in one step go on beside them                                           *)
(*                                                                         *)
(* hist.raced tells that a put found no node while another put of the same *)
(* singleton that had found none had not yet added.                        *)
(***************************************************************************)

RaceSettings == [Versioning |-> <<"E">>, LockConfiguration |-> LockFlagOnly]
RaceOID == <<"x">>
RaceTagSet == ("k" :> "v1")
RaceSingletons == {"settings", "cors"}

\* The lookup a put of singleton s starts with.
putLookup(tree, s) ==
    getSystemNode(tree, <<Singletons[s]>>,
                  IF s \in {"cors", "notifications"} THEN {oidKV} ELSE {})

\* What the put of singleton s does once its lookup gave found.
putAfterLookup(tree, s, found, c) ==
    CASE s = "settings" -> putSettingsNode(tree, found, RaceSettings, c)
      [] s \in {"cors", "notifications"} ->
            putPointer(tree, found, Singletons[s], RaceOID, c)
      [] s = "tagging" -> putBucketTagging(tree, found, RaceTagSet, c)

\* Task t has found no node of singleton s and not yet added.
FoundNone(t, s) ==
    /\ inflight[t].pc = "planned"
    /\ inflight[t].singleton = s
    /\ inflight[t].found.err = ErrNodeNotFound

LookupPut(t, s) ==
    /\ inflight[t].pc = "idle"
    /\ \E found \in {putLookup(trees[systemTree], s)} :
        /\ inflight' = [inflight EXCEPT ![t] =
                            [pc |-> "planned", singleton |-> s,
                             found |-> found]]
        /\ hist' = [hist EXCEPT !.raced =
                        @ \/ (found.err = ErrNodeNotFound
                                /\ \E u \in Tasks \ {t} : FoundNone(u, s))]
    /\ UNCHANGED <<trees, clock, ret, parts, unv, pathVars, listVars, credVars>>

IssuePut(t) ==
    /\ inflight[t].pc = "planned"
    /\ clock < MaxClock
    /\ \E out \in {putAfterLookup(trees[systemTree], inflight[t].singleton,
                                  inflight[t].found, clock)} :
        /\ trees' = [trees EXCEPT ![systemTree] = out.tree]
        /\ ret' = [op |-> "put", singleton |-> inflight[t].singleton,
                   err |-> out.err, before |-> trees[systemTree]]
    /\ clock' = clock + 1
    /\ inflight' = [inflight EXCEPT ![t] = NoCall]
    /\ UNCHANGED <<parts, unv, hist, pathVars, listVars, credVars>>

InitSingletonRace == PathIdle /\ ListIdle /\ TreeIdle /\ CredIdle

NextSingletonRace ==
    \/ \E t \in Tasks, s \in RaceSingletons : LookupPut(t, s)
    \/ \E t \in Tasks : IssuePut(t)
    \/ DoPutSettingsNode(RaceSettings)
    \/ DoPutPointer("cors", RaceOID)
    \/ DoDeleteBucketCORS
    \/ \E s \in RaceSingletons : DoGet(s)

SpecSingletonRace == InitSingletonRace /\ [][NextSingletonRace]_vars

(***************************************************************************)
(* SpecCreds: GetBox is called for the addresses of objects held by NeoFS, *)
(* reads and cache puts failing or not, while the cache drops entries      *)
(*                                                                         *)
(* ret holds what the last GetBox returned, the number of                  *)
(* ReadObjectPayload calls it made and the cache it found.                 *)
(***************************************************************************)

OwnKey == "k1"
OtherKey == "k2"

\* The objects NeoFS holds: three access boxes made for the key of cred,
\* one made for another key, and one whose payload is no access box.
Garbage == [marshalled |-> FALSE, gates |-> {}, box |-> NilBox]
AccessBoxOf(privateKeys, box) ==
    [marshalled |-> TRUE, gates |-> privateKeys, box |-> box]
Objects ==
    ("a1" :> AccessBoxOf({OwnKey}, "box1"))
        @@ ("a2" :> AccessBoxOf({OwnKey, OtherKey}, "box2"))
        @@ ("a3" :> AccessBoxOf({OwnKey}, "box3"))
        @@ ("a4" :> AccessBoxOf({OtherKey}, "box4"))
        @@ ("a5" :> Garbage)

\* The addresses asked for: a6 is the address of no object.
Addresses == DOMAIN Objects \cup {"a6"}

\* What ReadObjectPayload gives for an address.
ReadObjectPayload(addr, readFailed) ==
    IF readFailed \/ addr \notin DOMAIN Objects
    THEN [err |-> ErrReadPayload, data |-> Garbage]
    ELSE [err |-> NoError, data |-> Objects[addr]]

GetBox(addr, readFailed, putFailed) ==
    /\ \E out \in {getBox(cache, addr, OwnKey,
                          ReadObjectPayload(addr, readFailed), putFailed)} :
        /\ cache' = out.cache
        /\ ret' = [op |-> "GetBox", addr |-> addr, err |-> out.err,
                   box |-> out.box, reads |-> out.reads, before |-> cache,
                   readFailed |-> readFailed, putFailed |-> putFailed]
    /\ UNCHANGED <<trees, clock, parts, unv, sideVars, pathVars, listVars>>

\* The cache drops the entry of an address: its lifetime is over, or the
\* cache is full.
Evict(addr) ==
    /\ addr \in DOMAIN cache
    /\ cache' = [a \in DOMAIN cache \ {addr} |-> cache[a]]
    /\ ret' = [op |-> "Evict", addr |-> addr]
    /\ UNCHANGED <<trees, clock, parts, unv, sideVars, pathVars, listVars>>

InitCreds == PathIdle /\ ListIdle /\ TreeIdle /\ CredIdle

NextCreds ==
    \/ \E addr \in Addresses, readFailed \in BOOLEAN, putFailed \in BOOLEAN :
            GetBox(addr, readFailed, putFailed)
    \/ \E addr \in Addresses : Evict(addr)

SpecCreds == InitCreds /\ [][NextCreds]_vars

(***************************************************************************)
(* Claims on the path encoding (SpecPath)                                  *)
(***************************************************************************)

\* C10: for every key K, joining pathFromName(K) with '/' and substituting
\* <empty> back to the empty string yields K (path encoding is injective).
C10_PathRoundTrip == nameFromPath(path) = key

(***************************************************************************)
(* Claims on ListObjectVersions (SpecList)                                 *)
(***************************************************************************)

Returned == res # NoResult /\ ~res.panicked

\* The listing a single call with no markers and unbounded MaxKeys returns.
FullListing ==
    ListObjectVersions(stored,
        [req EXCEPT !.KeyMarker = <<>>, !.VersionIDMarker = <<>>,
                    !.MaxKeys = Cardinality(stored)]).objects

IsPrefixOf(s, t) == Len(s) <= Len(t) /\ SubSeq(t, 1, Len(s)) = s

\* C4: pagination closure: the pages fetched by following NextKeyMarker /
\* NextVersionIDMarker, concatenated, are the listing of a single unbounded
\* call: at any moment a prefix of it (nothing duplicated or reordered), and
\* all of it once IsTruncated is false.
C4_PaginationClosure ==
    pc \in {"paging", "done"} =>
        /\ IsPrefixOf(acc, FullListing)
        /\ pc = "done" => acc = FullListing

\* The sequence the cursor step works on.
Flattened ==
    LET versions == getAllObjectsVersions(stored, req.Prefix, req.Delimiter)
    IN  flatten(versions, SortStrings(DOMAIN versions))

Qualifies(o) ==
    /\ StrGE(o.Name, req.KeyMarker)
    /\ StrGE(Version(o), req.VersionIDMarker)

\* C5: cursor advance: the flattened sequence is cut at the first item with
\* Name >= KeyMarker and Version >= VersionIDMarker, and when no item
\* satisfies the condition the result is empty.
C5_CursorAdvance ==
    Returned =>
        LET hits == {i \in 1..Len(Flattened) : Qualifies(Flattened[i])}
            cut  == IF hits = {} THEN <<>>
                    ELSE SubSeq(Flattened, Min(hits), Len(Flattened))
            tri  == triageExtendedObjects(cut)
        IN  /\ res.CommonPrefixes = tri.prefixes
            /\ IsPrefixOf(res.objects, tri.objects)
            /\ ~res.IsTruncated => res.objects = tri.objects

\* The entries of a result, the versions of a name among them.
Entries == {res.objects[i] : i \in 1..Len(res.objects)}
EntriesOf(name) == {o \in Entries : o.Name = name}
StoredOf(name) == {v \in stored : v.FilePath = name}

\* C6 as stated: in any result, within each group of returned entries of
\* one name exactly one entry has IsLatest, the one with the greatest
\* Timestamp.
C6_LatestExactlyOnePerGroup ==
    Returned =>
        \A o \in Entries :
            /\ Cardinality({e \in EntriesOf(o.Name) : e.IsLatest}) = 1
            /\ \A e \in EntriesOf(o.Name) :
                  e.IsLatest <=>
                      \A v \in StoredOf(o.Name) : v.Timestamp <= e.Timestamp

\* C6 as amended: in any result an entry has IsLatest exactly when it is the
\* version with the greatest Timestamp among the stored versions of its
\* name, so at most one entry per name has it; a result obtained with empty
\* markers holds that entry for every name it holds.
C6_LatestIsNewestStored ==
    Returned =>
        /\ \A e \in Entries :
              e.IsLatest <=>
                  \A v \in StoredOf(e.Name) : v.Timestamp <= e.Timestamp
        /\ \A o \in Entries :
              Cardinality({e \in EntriesOf(o.Name) : e.IsLatest}) <= 1
        /\ (req.KeyMarker = <<>> /\ req.VersionIDMarker = <<>>) =>
              \A o \in Entries :
                  Cardinality({e \in EntriesOf(o.Name) : e.IsLatest}) = 1

\* A result with two entries of one name, the newest flagged.
C6_Reached ==
    /\ Returned
    /\ \E e1, e2 \in Entries :
          /\ e1.Name = e2.Name
          /\ e1.IsLatest /\ ~e2.IsLatest
          /\ e1.Timestamp > e2.Timestamp

Ordered(s) ==
    \A i, j \in 1..Len(s) :
        i < j =>
            /\ ~StrLess(s[j].Name, s[i].Name)
            /\ s[i].Name = s[j].Name => s[i].Timestamp >= s[j].Timestamp

\* C7: version ordering: in the assembled sequence and in every returned
\* list, names are non-decreasing and, within a name, Timestamps are
\* non-increasing.
C7_VersionOrdering ==
    Returned =>
        /\ Ordered(Flattened)
        /\ Ordered(res.objects)
        /\ Ordered(res.Version)
        /\ Ordered(res.DeleteMarker)

\* Three versions of one key, stored with the newest in the middle of the
\* OID order, are listed newest first, after a version of a smaller key.
C7_Reached ==
    /\ Returned
    /\ Len(res.objects) = 3
    /\ res.objects[1].Name # res.objects[2].Name
    /\ res.objects[2].Name = res.objects[3].Name
    /\ res.objects[2].Timestamp > res.objects[3].Timestamp
    /\ StrLess(Version(res.objects[2]), Version(res.objects[3]))

\* C8: truncation: every call returns; IsTruncated is set exactly when the
\* list remaining after cursor and delimiter collapse has more than MaxKeys
\* items; then the first MaxKeys items are returned, the Next markers are
\* those of the first dropped item and the echoed markers those of the last
\* included item (when there is one); otherwise all items are returned.
C8_Truncation ==
    res # NoResult =>
        LET rem == remaining(stored, req).objects
        IN  /\ ~res.panicked
            /\ res.IsTruncated <=> Len(rem) > req.MaxKeys
            /\ res.IsTruncated =>
                /\ res.objects = SubSeq(rem, 1, req.MaxKeys)
                /\ res.NextKeyMarker = rem[req.MaxKeys + 1].Name
                /\ res.NextVersionIDMarker = rem[req.MaxKeys + 1].OID
                /\ req.MaxKeys >= 1 =>
                    /\ res.KeyMarker = rem[req.MaxKeys].Name
                    /\ res.VersionIDMarker = rem[req.MaxKeys].OID
            /\ ~res.IsTruncated =>
                /\ res.objects = rem
                /\ res.NextKeyMarker = <<>>
                /\ res.NextVersionIDMarker = <<>>
            /\ Len(res.Version) + Len(res.DeleteMarker) = Len(res.objects)

\* What C8 says of the calls that return: checked on its own, it holds.
TruncationOfReturnedPages ==
    (res # NoResult /\ ~res.panicked) => C8_Truncation

\* A key that, after removing Prefix, contains Delimiter.
RollsUp(name) ==
    LET rest == SubSeq(name, Len(req.Prefix) + 1, Len(name))
    IN  /\ req.Delimiter # <<>>
        /\ \E i \in 1..Len(rest) :
              /\ i + Len(req.Delimiter) - 1 <= Len(rest)
              /\ SubSeq(rest, i, i + Len(req.Delimiter) - 1) = req.Delimiter

Under == {v \in stored : HasPrefix(v.FilePath, req.Prefix)}

\* C9: delimiter collapse: a version whose key, after removing Prefix,
\* contains Delimiter is never in the version lists; every common prefix is
\* the roll-up of such a key and is reported once; and in a complete listing
\* (no markers, not truncated) the lists hold exactly the other versions
\* under Prefix and CommonPrefixes holds the roll-up of every such key.
C9_DelimiterCollapse ==
    Returned =>
        /\ \A o \in Entries : ~RollsUp(o.Name) /\ HasPrefix(o.Name, req.Prefix)
        /\ \A i \in 1..Len(res.CommonPrefixes) :
              /\ \E v \in Under :
                    /\ RollsUp(v.FilePath)
                    /\ HasPrefix(v.FilePath, res.CommonPrefixes[i])
                    /\ res.CommonPrefixes[i]
                          = CommonPrefixOf(v.FilePath, req.Prefix, req.Delimiter)
              /\ \A j \in 1..Len(res.CommonPrefixes) :
                    res.CommonPrefixes[i] = res.CommonPrefixes[j] => i = j
        /\ (req.KeyMarker = <<>> /\ req.VersionIDMarker = <<>>
                /\ ~res.IsTruncated) =>
              /\ {o.OID : o \in Entries}
                    = {v.OID : v \in {w \in Under : ~RollsUp(w.FilePath)}}
              /\ {res.CommonPrefixes[i] : i \in 1..Len(res.CommonPrefixes)}
                    = {CommonPrefixOf(v.FilePath, req.Prefix, req.Delimiter)
                         : v \in {w \in Under : RollsUp(w.FilePath)}}

\* Prefix d/ and Delimiter /: d/a is listed and d/s/c rolls up into d/s/.
C9_Reached ==
    /\ Returned
    /\ req.Prefix = <<"d", "/">>
    /\ req.Delimiter = separator
    /\ res.CommonPrefixes = << <<"d", "/", "s", "/">> >>
    /\ {o.Name : o \in Entries} = { <<"d", "/", "a">> }
    /\ Cardinality({v \in stored : v.FilePath = <<"d", "/", "s", "/", "c">>}) = 2

\* C34: page size bound: for every MaxKeys >= 0, MaxKeys = 0 included, and
\* every stored set of versions, ListObjectVersions completes without
\* failing and returns no more entries, versions and delete markers
\* together, than MaxKeys.
C34_PageSizeBound ==
    res # NoResult =>
        /\ ~res.panicked
        /\ Len(res.Version) + Len(res.DeleteMarker) <= req.MaxKeys

\* What C34 says for MaxKeys >= 1: checked on its own, it holds.
PageSizeBoundFromOne ==
    (res # NoResult /\ req.MaxKeys >= 1) => C34_PageSizeBound

(***************************************************************************)
(* Claims about the tree client                                            *)
(***************************************************************************)

\* C1: after any sequence of AddPart calls on one upload node, the node
\* has at most one child for each part number, and that child carries the
\* OID of the most recent AddPart call for the number.
C1_OneChildPerPartNumber ==
    \A e \in parts :
        LET kids == PartsNumbered(trees[systemTree], e.root, e.Number)
        IN  /\ Cardinality(kids) <= 1
            /\ \A n \in kids : n.meta[oidKV] = e.OID

\* C2: AddPart returns ErrNoNodeToRemove exactly when no part with the
\* number existed before the call; when one existed it returns the OID
\* that was stored under the number, and no error.
C2_AddPartReturnsOldOID ==
    ret.op = "AddPart" =>
        /\ (ret.err = ErrNoNodeToRemove) <=> ~ret.existed
        /\ ret.existed => ret.err = NoError /\ ret.oid = ret.oldOID

\* C3: after a run of one or more unversioned AddVersion calls for one key
\* whose path held no version before, with no other write in between, there
\* is exactly one version node at the path: it is unversioned, carries the
\* OID of the last call and is the node the first call created; the first
\* call adds by path and every later one moves.
C3_UnversionedSlot ==
    (unv.n >= 1 /\ unv.fresh) =>
        LET at == VersionNodesAt(trees[versionTree], unv.key)
        IN  /\ Cardinality(at) = 1
            /\ \A n \in at : /\ n.id = unv.firstId
                             /\ n.meta[oidKV] = unv.lastOID
                             /\ Has(n.meta, isUnversionedKV)
            /\ ret.call = IF unv.n = 1 THEN "addByPath" ELSE "move"

\* C3 happens: a third unversioned write to a key below a directory has
\* replaced the OID of the first.
C3_Reached ==
    /\ unv.n >= 3
    /\ unv.fresh
    /\ Len(pathFromName(unv.key)) = 2
    /\ ret.call = "move"
    /\ \E n \in VersionNodesAt(trees[versionTree], unv.key) :
            n.id = unv.firstId /\ n.ts > n.id

\* What a versioned AddVersion of a key does to the version tree.
AppendsVersion(filepath, old, new) ==
    /\ ret'.call = "addByPath" /\ ret'.err = NoError
    /\ old \subseteq new
    /\ Cardinality({n \in new \ old : Has(n.meta, oidKV)}) = 1
    /\ \A n \in new \ old :
          IF Has(n.meta, oidKV)
          THEN /\ PathTo(new, n.id) = pathFromName(filepath)
               /\ ~Has(n.meta, isUnversionedKV)
          ELSE DOMAIN n.meta = {fileNameKV}
    /\ Cardinality(VersionNodesAt(new, filepath))
          = Cardinality(VersionNodesAt(old, filepath)) + 1
    /\ {n.id : n \in VersionNodesAt(new, filepath)}
          \subseteq {v.ID : v \in getVersions(new, filepath, FALSE)}

\* C14: versioned add is append-only: an AddVersion call with
\* IsUnversioned = false issues only AddNodeByPath, so it creates one new
\* version node at the key's path and leaves every existing node (NodeId,
\* parent, metadata) unchanged; each such call adds one to the version nodes
\* at that path, and GetVersions returns all of them.
C14_VersionedAddAppendOnly ==
    [][\A filepath \in TreeKeys, objID \in TreeOIDs, dm \in BOOLEAN :
          AddVersion(filepath, objID, FALSE, dm) =>
              AppendsVersion(filepath, trees[versionTree],
                             trees'[versionTree])]_vars

\* Three versioned calls for the key a, the first on a tree that held an
\* unversioned a: four version nodes at a, all returned by GetVersions.
C14_Reached ==
    /\ ret.op = "AddVersion" /\ ret.call = "addByPath"
    /\ LET at == VersionNodesAt(trees[versionTree], <<"a">>)
       IN  /\ Cardinality(at) = 4
           /\ Cardinality({n \in at : Has(n.meta, isUnversionedKV)}) = 1
           /\ {n.id : n \in at}
                \subseteq {v.ID : v \in getVersions(trees[versionTree],
                                                    <<"a">>, FALSE)}

(***************************************************************************)
(* Claims on the versions under a prefix (SpecPrefix)                      *)
(***************************************************************************)

\* A call of getVersionsByPrefix has returned without error.
Listed == ret.op = "getVersionsByPrefix" /\ ret.err = NoError

\* The version nodes of a tree, and the key a node was added under.
VersionNodes(tree) == {n \in tree : Has(n.meta, oidKV)}
KeyOf(tree, n) == nameFromPath(PathTo(tree, n.id))

\* The versions of the object a version node belongs to: the version nodes
\* sharing its parent and FileName; the newest of them.
Siblings(tree, n) ==
    {m \in VersionNodes(tree) :
        m.parent = n.parent /\ getFilename(m) = getFilename(n)}
Newest(tree, n) ==
    CHOOSE m \in Siblings(tree, n) : \A k \in Siblings(tree, n) : k.ts <= m.ts
Deleted(tree, n) == Has(Newest(tree, n).meta, isDeleteMarkerKV)

\* C11: delete-marker hiding: GetLatestVersionsByPrefix never returns a
\* version of an object whose newest version is a delete marker, neither the
\* marker nor an older live version; GetAllVersionsByPrefix on the same tree
\* and prefix returns the delete marker and the older versions of every such
\* object under the prefix.
C11_DeleteMarkerHiding ==
    (Listed /\ ret.latestOnly) =>
        LET tree == trees[versionTree]
        IN  /\ \A v \in ret.versions : ~Deleted(tree, NodeByID(tree, v.ID))
            /\ \A all \in GetAllVersionsByPrefix(tree, ret.prefix) :
                  /\ all.err = NoError
                  /\ \A n \in VersionNodes(tree) :
                        (Deleted(tree, n)
                            /\ HasPrefix(KeyOf(tree, n), ret.prefix)) =>
                                n.id \in {v.ID : v \in all.versions}

\* A live version of a/b and a newer delete marker of it: the latest
\* versions under a/ hold none of them, all versions under a/ hold both.
C11_Reached ==
    /\ Listed /\ ret.latestOnly
    /\ ret.prefix = <<"a", "/">>
    /\ ret.versions = {}
    /\ \E all \in GetAllVersionsByPrefix(trees[versionTree], ret.prefix) :
          \E v, d \in all.versions :
              /\ v.FilePath = <<"a", "/", "b">> /\ d.FilePath = v.FilePath
              /\ ~v.IsDeleteMarker /\ d.IsDeleteMarker
              /\ d.Timestamp > v.Timestamp

\* C12: latest selection: GetLatestVersionsByPrefix returns at most one
\* version per object key, and the version returned for a key has the
\* highest Timestamp among the version nodes stored for that key (same
\* parent, same FileName), in whatever order the backend streams the nodes
\* and whether or not an intermediate node of the same name stands beside
\* the leaves.
C12_LatestSelection ==
    (Listed /\ ret.latestOnly) =>
        LET tree == trees[versionTree]
        IN  /\ \A v, w \in ret.versions : v.FilePath = w.FilePath => v = w
            /\ \A v \in ret.versions :
                  /\ v.ID = Newest(tree, NodeByID(tree, v.ID)).id
                  /\ v.FilePath = KeyOf(tree, NodeByID(tree, v.ID))
                  /\ \A n \in VersionNodes(tree) :
                        KeyOf(tree, n) = v.FilePath => n.ts <= v.Timestamp

\* Two versions of a beside the intermediate node a that holds a/b: the
\* latest versions under the prefix a are the newer a and the one of a/b.
C12_Reached ==
    /\ Listed /\ ret.latestOnly
    /\ ret.prefix = <<"a">>
    /\ Cardinality(VersionNodesAt(trees[versionTree], <<"a">>)) = 2
    /\ \E n \in trees[versionTree] :
          n.parent = 0 /\ isIntermediate(n) /\ getFilename(n) = <<"a">>
    /\ {v.FilePath : v \in ret.versions} = {<<"a">>, <<"a", "/", "b">>}
    /\ Cardinality(ret.versions) = 2

\* C13: prefix listing is exact: GetAllVersionsByPrefix(prefix) returns
\* exactly the stored versions whose key starts with prefix, each with
\* FilePath equal to the key it was added under, and no version whose key
\* does not start with prefix.
C13_PrefixListingExact ==
    (Listed /\ ~ret.latestOnly) =>
        LET tree == trees[versionTree]
        IN  {[ID |-> v.ID, FilePath |-> v.FilePath] : v \in ret.versions}
                = {[ID |-> n.id, FilePath |-> KeyOf(tree, n)]
                   : n \in {m \in VersionNodes(tree)
                              : HasPrefix(KeyOf(tree, m), ret.prefix)}}

(***************************************************************************)
(* Claims on the tag and lock sidecars (SpecSidecar, SpecSidecarRace)      *)
(***************************************************************************)

\* The orders in which the children of a version may be streamed.
ChildStreams(versionID) == getSubTree(trees[versionTree], versionID, 1)

\* C15: tagging round-trip with replacement: after PutObjectTagging(version,
\* T), GetObjectTagging(version) returns exactly the map T, whatever tag set
\* was stored before, and the tag sidecar keeps the NodeId it had before the
\* put when one existed.
C15_TaggingRoundTrip ==
    ret.op = "PutObjectTagging" =>
        /\ \A stream \in ChildStreams(ret.version) :
              GetObjectTagging(stream) = [nil |-> FALSE, tags |-> ret.tagSet]
        /\ ret.before # {} =>
              TagChildren(trees[versionTree], ret.version) = ret.before

\* A put of the tag set {k: v1} on a version that held the tags k and
\* User-Tag-k in the node 2: the node 2 is still the tag node.
C15_Reached ==
    /\ ret.op = "PutObjectTagging"
    /\ ret.tagSet = ("k" :> "v1")
    /\ ret.before = {2}
    /\ \E n \in trees[versionTree] :
          /\ n.id = 2 /\ n.ts = 4
          /\ n.meta = (isTagKV :> "true") @@ ("User-Tag-k" :> "v1")
    /\ \A stream \in ChildStreams(ret.version) :
          GetObjectTagging(stream).tags = ("k" :> "v1")

\* Every version node has at most one tag child and at most one lock child.
SidecarsUnique ==
    \A versionID \in Versions :
        /\ Cardinality(TagChildren(trees[versionTree], versionID)) <= 1
        /\ Cardinality(LockChildren(trees[versionTree], versionID)) <= 1

\* C16 as stated: sidecar uniqueness: after any sequence or interleaving of
\* PutObjectTagging, DeleteObjectTagging and PutLock calls on a version
\* node, the node has at most one child carrying IsTag and at most one
\* carrying IsLock.
C16_SidecarUniqueness == SidecarsUnique

\* C16 as amended: the node has at most one child carrying IsTag and at
\* most one carrying IsLock after any sequence of such calls in which no
\* call began while a PutObjectTagging call was under way and every PutLock
\* was given a LockInfo with the id of the node's lock child, 0 when it had
\* none.
C16_SidecarUniquenessSequential ==
    (~hist.raced /\ ~hist.stray) => SidecarsUnique

\* Calls made one after the other: a tag node put twice (added, then moved)
\* and a lock node beside it.
C16_Reached ==
    /\ ~hist.raced /\ ~hist.stray
    /\ ret.op = "PutLock"
    /\ \E t, l \in trees[versionTree] :
          /\ t.parent = ret.node /\ l.parent = ret.node
          /\ Has(t.meta, isTagKV) /\ t.ts > t.id
          /\ Has(l.meta, isLockKV)

\* GetLock on a version node with no lock child returns the empty LockInfo.
NoLockReadsEmpty ==
    \A versionID \in Versions :
        LockChildren(trees[versionTree], versionID) = {} =>
            \A stream \in ChildStreams(versionID) :
                GetLock(stream) = NewLockInfo(0)

\* C17 as stated: lock round-trip: GetLock on a version node with no lock
\* child returns an empty LockInfo; after PutLock(node, L), GetLock(node)
\* returns a LockInfo with a non-zero ID whose IsLegalHoldSet / LegalHold and
\* IsRetentionSet / Retention / UntilDate / IsCompliance equal those of L.
C17_LockRoundTrip ==
    /\ NoLockReadsEmpty
    /\ ret.op = "PutLock" =>
          \A stream \in ChildStreams(ret.node) :
              /\ GetLock(stream).id # 0
              /\ [GetLock(stream) EXCEPT !.id = 0]
                    = [ret.lock EXCEPT !.id = 0]

\* C17 as amended: GetLock on a version node with no lock child returns an
\* empty LockInfo; after PutLock(node, L) with L.ID() the id of the node's
\* only lock child, or 0 when it has none, GetLock(node) returns a LockInfo
\* with a non-zero ID (that of L when it is not 0), with IsLegalHoldSet,
\* IsRetentionSet, Retention, UntilDate and IsCompliance equal to those of
\* L, and with LegalHold equal to that of L when the legal hold is set and
\* zero when it is not.
C17_LockRoundTripOfHeldLock ==
    /\ NoLockReadsEmpty
    /\ (ret.op = "PutLock"
            /\ ret.before = (IF ret.lock.id = 0 THEN {} ELSE {ret.lock.id})) =>
          \A stream \in ChildStreams(ret.node) :
              /\ GetLock(stream).id # 0
              /\ ret.lock.id # 0 => GetLock(stream).id = ret.lock.id
              /\ [GetLock(stream) EXCEPT !.id = 0]
                    = [ret.lock EXCEPT
                         !.id = 0,
                         !.legalHoldOID =
                            IF ret.lock.setLegalHold THEN @ ELSE emptyOID]

\* The lock of a version is put again after ResetLegalHold on the LockInfo
\* GetLock returned: the lock node no longer carries the legal hold.
C17_Reached ==
    /\ ret.op = "PutLock"
    /\ ret.before = {ret.lock.id}
    /\ ~ret.lock.setLegalHold /\ ret.lock.legalHoldOID # emptyOID
    /\ \A stream \in ChildStreams(ret.node) :
          /\ GetLock(stream).id = ret.lock.id
          /\ ~GetLock(stream).setLegalHold
    /\ \E n \in trees[versionTree] :
          n.id = ret.lock.id /\ n.ts > n.id /\ ~Has(n.meta, legalHoldOIDKV)

\* C18: combined fetch equivalence: GetObjectTaggingAndLock returns the tag
\* map GetObjectTagging returns and the LockInfo GetLock returns on the same
\* state (here: on the same streamed order of the depth-1 subtree).
C18_CombinedFetchEquivalence ==
    ret.op = "GetObjectTaggingAndLock" =>
        /\ ret.out.tagging = GetObjectTagging(ret.stream)
        /\ ret.out.lock = GetLock(ret.stream)

(***************************************************************************)
(* The singletons of the system tree                                       *)
(***************************************************************************)

\* The value a get returned.
ValueOf(s, out) ==
    CASE s = "settings" -> [Versioning |-> out.Versioning,
                            LockConfiguration |-> out.LockConfiguration]
      [] s \in {"notifications", "cors"} -> out.oid
      [] s = "tagging" -> out.tags

\* One node at the root carries the name of singleton s: the node its first
\* put created.
OneNodeOfFirstPut(s) ==
    /\ Cardinality(RootNamed(trees[systemTree], Singletons[s])) = 1
    /\ RootNamed(trees[systemTree], Singletons[s]) = hist.puts[s].first

\* C19: after any sequence of put calls on a system singleton, the root of
\* the system tree holds exactly one node with the singleton's FileName,
\* its NodeId is the one the first put created, and the matching get
\* returns the value of the last put.
C19_SingletonUpsert ==
    \A s \in DOMAIN hist.puts :
        /\ OneNodeOfFirstPut(s)
        /\ GetSingleton(trees[systemTree], s).err = NoError
        /\ ValueOf(s, GetSingleton(trees[systemTree], s)) = hist.puts[s].last

\* A lock configuration as the settings node keeps it: without a rule when
\* it is nil or its rule has no default retention.
AsKept(conf) ==
    IF conf.nil \/ conf.Rule.nil \/ conf.Rule.DefaultRetention.nil
    THEN [EmptyLockConfiguration
            EXCEPT !.ObjectLockEnabled = conf.ObjectLockEnabled]
    ELSE conf

\* The value of a put as the matching get is to return it.
Kept(s, value) ==
    IF s = "settings"
    THEN [value EXCEPT !.LockConfiguration = AsKept(@)]
    ELSE value

\* C19, amended: after any sequence of put calls on a system singleton, the
\* root of the system tree holds exactly one node with the singleton's
\* FileName, its NodeId is the one the first put created, and the matching
\* get returns the value of the last put, the lock configuration of the
\* settings without a rule when the one put was nil or had no default
\* retention.
C19_SingletonUpsertAsKept ==
    \A s \in DOMAIN hist.puts :
        /\ OneNodeOfFirstPut(s)
        /\ GetSingleton(trees[systemTree], s).err = NoError
        /\ ValueOf(s, GetSingleton(trees[systemTree], s))
                = Kept(s, hist.puts[s].last)

\* A singleton that was put again, its node moved in place, has been read.
C19_Reached ==
    /\ ret.op = "Get"
    /\ ret.singleton \in DOMAIN hist.puts
    /\ ret.out.err = NoError
    /\ \E n \in trees[systemTree] :
        /\ n.id \in hist.puts[ret.singleton].first
        /\ n.ts > n.id
        /\ \E m \in ret.before : m.id = n.id /\ m.ts = n.ts

\* C20: a delete on a system singleton removes the node when it is present,
\* and returns ErrNoNodeToRemove without touching the tree when it is
\* absent.
C20_SingletonDelete ==
    \A s \in {"cors", "tagging"} :
        ret.op = (IF s = "cors" THEN "DeleteBucketCORS"
                  ELSE "DeleteBucketTagging")
        => IF RootNamed(ret.before, Singletons[s]) # {}
           THEN /\ ret.err = NoError
                /\ RootNamed(trees[systemTree], Singletons[s]) = {}
           ELSE /\ ret.err = ErrNoNodeToRemove
                /\ trees[systemTree] = ret.before

\* C21: GetSettingsNode on a bucket whose settings node has no Versioning
\* key returns settings with Versioning = Unversioned; when the node
\* carries Versioning, the stored value is returned; when there is no
\* settings node the call returns ErrNodeNotFound and no settings.
C21_SettingsDefault ==
    (ret.op = "Get" /\ ret.singleton = "settings") =>
        /\ Named(ret.before, 0, settingsFileName) = {}
            => ret.out.err = ErrNodeNotFound /\ ret.out.nil
        /\ \A n \in Named(ret.before, 0, settingsFileName) :
            Named(ret.before, 0, settingsFileName) = {n} =>
                /\ ret.out.err = NoError
                /\ ret.out.Versioning =
                    IF Has(n.meta, versioningKV) THEN n.meta[versioningKV]
                    ELSE VersioningUnversioned

\* The settings were read from a node without the Versioning key.
C21_Reached ==
    /\ ret.op = "Get" /\ ret.singleton = "settings"
    /\ \E n \in Named(ret.before, 0, settingsFileName) :
        /\ Named(ret.before, 0, settingsFileName) = {n}
        /\ ~Has(n.meta, versioningKV)
    /\ ret.out.err = NoError
    /\ ret.out.Versioning = VersioningUnversioned

\* C22: parseLockConfiguration(encodeLockConfiguration(c)) equals c for
\* every configuration c (an enabled flag and an optional rule with a
\* default retention of days, mode and years); the encoding of nil is the
\* empty string; parsing the empty string succeeds and gives an empty
\* configuration, without a rule.
C22_LockConfigurationRoundTrip ==
    /\ (ret.op = "parse" /\ ~ret.conf.nil)
        => ret.out.err = NoError /\ ret.out.conf = ret.conf
    /\ (ret.op \in {"encode", "parse"} /\ ret.conf.nil) => ret.value = <<>>
    /\ (ret.op \in {"parse", "parseText"} /\ ret.value = <<>>)
        => /\ ret.out.err = NoError
           /\ ret.out.conf = EmptyLockConfiguration
           /\ ret.out.conf.Rule.nil

\* A configuration with a rule of several digits of days, an empty mode and
\* no years was encoded to four fields and parsed back.
C22_Reached ==
    /\ ret.op = "parse"
    /\ ~ret.conf.nil /\ ~ret.conf.Rule.nil
    /\ ret.conf.Rule.DefaultRetention.Days = 365
    /\ ret.conf.Rule.DefaultRetention.Mode = <<>>
    /\ ret.conf.Rule.DefaultRetention.Years = 0
    /\ Len(SplitComma(ret.value)) = 4
    /\ ret.out.conf = ret.conf

(***************************************************************************)
(* Uploads and parts                                                       *)
(***************************************************************************)

\* C23: after CreateMultipartUpload with key K and upload id U,
\* GetMultipartUpload(K, U) returns that upload, with the same Key and
\* UploadID, for every key K, keys with '/' included; GetMultipartUpload
\* returns ErrNodeNotFound when no upload of the key has the upload id.
C23_MultipartLookup ==
    ret.op = "GetMultipartUpload" =>
        IF [Key |-> ret.key, UploadID |-> ret.uploadID] \in hist.uploads
        THEN /\ ret.err = NoError
             /\ ret.info.Key = ret.key
             /\ ret.info.UploadID = ret.uploadID
        ELSE ret.err = ErrNodeNotFound

\* C24: GetMultipartUploadsByPrefix(prefix) returns exactly the uploads
\* created whose key starts with the prefix, each with its Key and
\* UploadID, no part node and no singleton, and an empty list without
\* error when no directory matches the prefix.
C24_MultipartListingByPrefix ==
    ret.op = "GetMultipartUploadsByPrefix" =>
        /\ ret.err = NoError
        /\ {[Key |-> i.Key, UploadID |-> i.UploadID] : i \in ret.uploads}
            = {u \in hist.uploads : HasPrefix(u.Key, ret.prefix)}

\* The children of an upload node that read as parts.
PartChildren(tree, multipartNodeID) ==
    {n \in tree : n.parent = multipartNodeID /\ newPartInfo(n).ok}

\* What a PartInfo is to be read back as.
AsStored(info) ==
    [ok |-> TRUE, Number |-> info.Number, OID |-> info.OID,
     Size |-> info.Size, ETag |-> info.ETag, Created |-> info.Created]

\* C25: GetParts(root) returns one PartInfo for every child of the upload
\* node that reads as a part, with the Number, OID, Size, ETag and Created
\* that AddPart stored; it never returns the root, and passes over the
\* children that do not read as a part without failing.
C25_GetParts ==
    ret.op = "GetParts" =>
        /\ ret.err = NoError
        /\ Len(ret.parts)
            = Cardinality(PartChildren(trees[systemTree], ret.root))
        /\ {ret.parts[i] : i \in 1..Len(ret.parts)}
            = {AsStored(hist.stored[n.id])
                : n \in PartChildren(trees[systemTree], ret.root)}
        /\ Cardinality({ret.parts[i] : i \in 1..Len(ret.parts)})
            = Len(ret.parts)

\* The parts of an upload with two parts and a child that is no part have
\* been read.
C25_Reached ==
    /\ ret.op = "GetParts"
    /\ Len(ret.parts) = 2
    /\ \E n \in trees[systemTree] :
        /\ n.parent = ret.root
        /\ ~newPartInfo(n).ok
        /\ hist.stored[n.id].Number = 0

(***************************************************************************)
(* Unversioned writes side by side                                         *)
(***************************************************************************)

\* C26: when two AddVersion calls with IsUnversioned = true for one key run
\* side by side on a path without unversioned node and both find none,
\* both add by path, and the tree is left with two nodes carrying
\* IsUnversioned at the path; nothing prevents or repairs it.
C26_UnversionedAddRace ==
    (hist.raced /\ \A t \in Tasks : ~FoundAbsent(t))
        => Cardinality(UnversionedAt(trees[versionTree], RaceKey)) >= 2

\* Two calls that both found no unversioned node have both added one.
C26_Reached ==
    /\ hist.raced
    /\ \A t \in Tasks : inflight[t].pc = "idle"
    /\ ret.op = "AddVersion" /\ ret.call = "addByPath"
    /\ Cardinality(UnversionedAt(trees[versionTree], RaceKey)) = 2

\* An unversioned AddVersion or a GetUnversioned made where the path holds
\* several unversioned nodes fails and leaves the tree as it is.
LockedOut ==
    /\ \A objID \in TreeOIDs :
        AddVersion(RaceKey, objID, TRUE, FALSE)
            => /\ ret'.err = ErrMoreThanOneUnversioned
               /\ ret'.call = "none"
               /\ UNCHANGED trees
    /\ \A t \in Tasks, objID \in TreeOIDs :
        PlanAddVersion(t, objID)
            => /\ inflight'[t].plan.call = "none"
               /\ inflight'[t].plan.err = ErrMoreThanOneUnversioned
    /\ \A t \in Tasks :
        (IssueAddVersion(t) /\ inflight[t].plan.call = "none")
            => /\ ret'.err = ErrMoreThanOneUnversioned
               /\ UNCHANGED trees
    /\ GetUnversioned(RaceKey) => ret'.err = ErrMoreThanOneUnversioned
    /\ Cardinality(UnversionedAt(trees'[versionTree], RaceKey)) > 1

\* C27: in any state where more than one node carrying IsUnversioned is at
\* a path, GetUnversioned and every AddVersion with IsUnversioned = true
\* for the path fail with the 'more than one unversioned node' error and
\* issue no add or move: the tree is left unchanged and the duplicate stays.
C27_MultiplicityLockout ==
    [][Cardinality(UnversionedAt(trees[versionTree], RaceKey)) > 1
            => LockedOut]_vars

\* An unversioned AddVersion has failed on a path with two unversioned
\* nodes.
C27_Reached ==
    /\ Cardinality(UnversionedAt(trees[versionTree], RaceKey)) = 2
    /\ ret.op = "AddVersion"
    /\ ret.err = ErrMoreThanOneUnversioned
    /\ ret.call = "none"

(***************************************************************************)
(* Paths during the traversal of a subtree                                 *)
(***************************************************************************)

\* A node of the stream with a FileName arrives before its parent did.
OutOfOrder(stream) ==
    \E i \in 2..Len(stream) :
        /\ Has(stream[i].meta, fileNameKV)
        /\ \A j \in 1..(i - 1) :
            stream[j].id = stream[i].parent => ~Has(stream[j].meta, fileNameKV)

\* C28: in getSubTreeVersions the first streamed node gets the path
\* parentFilePath, with exactly one '/' after it, followed by its FileName,
\* and every later node the path of its parent, '/' and its FileName, with
\* <empty> decoded to the empty string: the FilePath of each returned
\* version is the '/'-join of the FileNames from the root of the tree to
\* its node. If a node arrives whose parent has no recorded path, the call
\* fails with the 'invalid node order' error and returns no versions.
C28_PathReconstruction ==
    ret.op = "getSubTreeVersions" =>
        IF OutOfOrder(ret.stream)
        THEN ret.err = ErrInvalidNodeOrder /\ ret.versions = {}
        ELSE /\ ret.err = NoError
             /\ \A v \in ret.versions :
                    v.FilePath
                        = nameFromPath(PathTo(trees[versionTree], v.ID))

\* The versions of a directory under another were read from a
\* parentFilePath without '/' at its end, one of them of a key that ends
\* with '/'.
C28_Reached ==
    /\ ret.op = "getSubTreeVersions"
    /\ ret.err = NoError
    /\ ret.parentFilePath = <<"a">>
    /\ \E v \in ret.versions : v.FilePath = <<"a", "/", "b", "/">>
    /\ \E v \in ret.versions : v.FilePath = <<"a", "/", "b", "/", "c">>

\* A stream in which a node came before its parent was read.
C28_ReachedOutOfOrder ==
    /\ ret.op = "getSubTreeVersions"
    /\ OutOfOrder(ret.stream)
    /\ ret.err = ErrInvalidNodeOrder

(***************************************************************************)
(* The directory of a prefix                                               *)
(***************************************************************************)

\* The segments of a prefix before the last.
DirOf(prefix) == SubSeq(prefixPath(prefix), 1, Len(prefixPath(prefix)) - 1)

\* The intermediate nodes the backend finds at the directory of a prefix.
MatchingAt(tree, dir) ==
    LET r == Resolve(tree, SubSeq(dir, 1, Len(dir) - 1), 0, 0)
    IN  IF r.matched < Len(dir) - 1 THEN {}
        ELSE {n \in Named(tree, r.node, dir[Len(dir)])
                : DOMAIN n.meta = {fileNameKV}}

Matching(tree, prefix) ==
    IF DirOf(prefix) = <<>> THEN {} ELSE MatchingAt(tree, DirOf(prefix))

\* id is top or lies under it.
RECURSIVE LiesUnder(_, _, _)
LiesUnder(tree, id, top) ==
    \/ id = top
    \/ id # 0 /\ LiesUnder(tree, NodeByID(tree, id).parent, top)

\* What a listing by prefix has to return, given what it returned for the
\* prefix and the ids of the nodes of the items it returned.
ListedAt(tree, prefix, err, ids) ==
    IF DirOf(prefix) = <<>> THEN TRUE
    ELSE IF Cardinality(Matching(tree, prefix)) > 1
    THEN err # NoError /\ ids = {}
    ELSE IF Matching(tree, prefix) = {}
    THEN err = NoError /\ ids = {}
    ELSE /\ err = NoError
         /\ \A id \in ids :
                \A n \in Matching(tree, prefix) : LiesUnder(tree, id, n.id)

\* C29: for a prefix with more than one segment the segments before the
\* last have to lead to exactly one intermediate node (metadata exactly
\* {FileName}), which the listing is then made under; if several
\* intermediate nodes match, the operation fails with an error; if none
\* matches, GetAllVersionsByPrefix, GetLatestVersionsByPrefix and
\* GetMultipartUploadsByPrefix return an empty result and no error; a
\* prefix of one segment leads to the root, id 0, whatever the tree holds.
C29_PrefixDirectory ==
    /\ ret.op = "determinePrefixNode" =>
        LET among == Matching(trees[ret.treeID], ret.prefix)
        IN  IF DirOf(ret.prefix) = <<>>
            THEN ret.err = NoError /\ ret.rootID = 0
            ELSE IF Cardinality(among) > 1
            THEN ret.err = ErrMoreThanOneIntermediate
            ELSE IF among = {} THEN ret.err = ErrNodeNotFound
            ELSE ret.err = NoError /\ ret.rootID \in {n.id : n \in among}
    /\ ret.op = "getVersionsByPrefix" =>
        ListedAt(trees[versionTree], ret.prefix, ret.err,
                 {v.ID : v \in ret.versions})
    /\ ret.op = "GetMultipartUploadsByPrefix" =>
        ListedAt(trees[systemTree], ret.prefix, ret.err,
                 {u.ID : u \in ret.uploads})

\* A listing of versions failed on a directory of which there are two.
C29_Reached ==
    /\ ret.op = "getVersionsByPrefix"
    /\ Cardinality(Matching(trees[versionTree], ret.prefix)) = 2
    /\ ret.err = ErrMoreThanOneIntermediate

\* A listing of uploads found no directory and returned nothing while
\* the tree held uploads.
C29_ReachedNone ==
    /\ ret.op = "GetMultipartUploadsByPrefix"
    /\ DirOf(ret.prefix) # <<>>
    /\ Matching(trees[systemTree], ret.prefix) = {}
    /\ trees[systemTree] # {}
    /\ ret.err = NoError /\ ret.uploads = {}

\* A listing of versions was made under the one directory of its prefix
\* and returned a version.
C29_ReachedOne ==
    /\ ret.op = "getVersionsByPrefix"
    /\ Cardinality(Matching(trees[versionTree], ret.prefix)) = 1
    /\ ret.versions # {}

\* A prefix of one segment led to the root in a tree with two directories
\* of that name.
C29_ReachedRoot ==
    /\ ret.op = "determinePrefixNode"
    /\ ret.prefix = <<"a">>
    /\ Cardinality(MatchingAt(trees[ret.treeID], <<"a">>)) = 2
    /\ ret.rootID = 0

(***************************************************************************)
(* The drain of a subtree                                                  *)
(***************************************************************************)

\* The failure of the backend that ended the call, NoFailure if none did.
BackendFailure == IF ret.open.failed THEN ret.open ELSE ret.end

\* C30: getSubTree returns either the whole sequence of nodes the backend
\* streamed up to the end of the stream, or an error and no nodes: an error
\* met when the stream is opened or in the middle of it discards the nodes
\* received so far, and if its message contains 'not found' the error
\* returned is ErrNodeNotFound.
C30_SubTreeDrain ==
    ret.op = "getSubTree" =>
        IF ret.signErr = NoError /\ ~BackendFailure.failed
        THEN ret.err = Plain(NoError) /\ ret.subtree = ret.streamed
        ELSE /\ ret.err.err # NoError
             /\ ret.subtree = <<>>
             /\ (ret.signErr = NoError
                    /\ BackendFailure.message \in NotFoundMessages)
                    => ret.err = Plain(ErrNodeNotFound)

\* The stream broke after two nodes with a message that has 'not found'
\* in the middle of it, and the call returned ErrNodeNotFound and no node.
C30_Reached ==
    /\ ret.op = "getSubTree"
    /\ ret.signErr = NoError /\ ~ret.open.failed
    /\ Len(ret.streamed) = 2
    /\ ret.end.message = <<"t", "r", "e", "e", " ", "n", "o", "t", " ", "f",
                           "o", "u", "n", "d", ":", " ", "7">>
    /\ ret.err = Plain(ErrNodeNotFound)
    /\ ret.subtree = <<>>

\* A stream of several nodes was received to its end.
C30_ReachedWhole ==
    /\ ret.op = "getSubTree"
    /\ ret.err = Plain(NoError)
    /\ Len(ret.subtree) >= 2

(***************************************************************************)
(* Lookups of versions                                                     *)
(***************************************************************************)

\* The nodes at the path of a key.
NodesAt(tree, filepath) ==
    {n \in tree : /\ Has(n.meta, fileNameKV)
                  /\ PathTo(tree, n.id) = pathFromName(filepath)}

\* C31: GetVersions for a key at which the backend reports 'not found'
\* returns an empty list and no error, any other error of the backend is
\* returned as an error; GetLatestVersion for a key with no node returns
\* ErrNodeNotFound (as errors.Is tells: alone when the backend answers with
\* no nodes, wrapped when the backend reports 'not found').
C31_NotFoundIsEmpty ==
    /\ (ret.op = "GetVersions" /\ ret.signErr = NilError) =>
        /\ (ret.reply.failed /\ ret.reply.message \in NotFoundMessages)
                => ret.err = NilError /\ ret.versions = {}
        /\ (ret.reply.failed /\ ret.reply.message \in OtherMessages)
                => ret.err # NilError /\ ret.versions = {}
        /\ ~ret.reply.failed
                => /\ ret.err = NilError
                   /\ {v.ID : v \in ret.versions}
                        = {n.id : n \in NodesAt(trees[versionTree],
                                                ret.filepath)}
    /\ (/\ ret.op = "GetLatestVersion"
        /\ ret.signErr = NilError
        /\ NodesAt(trees[versionTree], ret.filepath) = {}
        /\ ret.reply.failed => ret.reply.message \in NotFoundMessages)
            => ret.err.is = ErrNodeNotFound /\ ret.version = {}

\* GetVersions returned nothing and no error for a key with versions at
\* which the backend reported 'not found'.
C31_Reached ==
    /\ ret.op = "GetVersions"
    /\ ret.signErr = NilError
    /\ ret.reply.failed /\ ret.reply.message \in NotFoundMessages
    /\ VersionNodesAt(trees[versionTree], ret.filepath) # {}
    /\ ret.err = NilError /\ ret.versions = {}

\* GetLatestVersion returned ErrNodeNotFound itself for a key with no node
\* in a tree that holds other keys.
C31_ReachedLatest ==
    /\ ret.op = "GetLatestVersion"
    /\ ~ret.reply.failed
    /\ trees[versionTree] # {}
    /\ ret.err = NodeNotFound

(***************************************************************************)
(* One mutating call at most                                               *)
(***************************************************************************)

\* after is before with one node more, under a node of before or the root.
OneAdded(before, after) ==
    /\ before \subseteq after
    /\ Cardinality(after \ before) = 1
    /\ \A n \in after \ before :
        /\ n.id \notin {m.id : m \in before}
        /\ n.parent \in {0} \cup {m.id : m \in before}

\* after is before with the nodes of one path more: every new node but
\* the last is an intermediate node with the next new node under it.
OneAddedByPath(before, after) ==
    /\ before \subseteq after
    /\ after # before
    /\ \A n \in after \ before : n.id \notin {m.id : m \in before}
    /\ Cardinality({n \in after \ before
                      : n.parent \in {0} \cup {m.id : m \in before}}) = 1
    /\ Cardinality({n \in after \ before
                      : \A m \in after \ before : m.parent # n.id}) = 1
    /\ \A n \in after \ before :
        (\E m \in after \ before : m.parent = n.id)
            => /\ DOMAIN n.meta = {fileNameKV}
               /\ Cardinality({m \in after \ before : m.parent = n.id}) = 1

\* after is before with one node moved: the node keeps its id.
OneMoved(before, after) ==
    /\ {n.id : n \in after} = {n.id : n \in before}
    /\ Cardinality(after) = Cardinality(before)
    /\ Cardinality(after \ before) = 1

\* after is before without one node and what lies under it.
OneRemoved(before, after) ==
    \E n \in before : after = removeNode(before, n.id)

\* The tree changed as one mutating call of the backend changes it, or not
\* at all.
AtMostOneCall(before, after) ==
    \/ after = before
    \/ OneAdded(before, after)
    \/ OneAddedByPath(before, after)
    \/ OneMoved(before, after)
    \/ OneRemoved(before, after)

MutatingOperations ==
    {"AddVersion", "AddPart", "PutObjectTagging", "DeleteObjectTagging",
     "PutLock", "PutSettingsNode", "PutBucketCORS",
     "PutNotificationConfigurationNode", "PutBucketTagging",
     "DeleteBucketCORS", "DeleteBucketTagging"}

\* C32: a call of AddVersion, AddPart, PutObjectTagging,
\* DeleteObjectTagging, PutLock, PutSettingsNode, PutBucketCORS,
\* PutNotificationConfigurationNode, PutBucketTagging, DeleteBucketCORS or
\* DeleteBucketTagging issues at most one mutating call of the backend
\* (add, add by path, move or remove): one tree changes as one such call
\* changes it and the other does not change. When a read of the operation
\* fails with an error other than not-found, the operation returns an error
\* and both trees are left as they were.
C32_OneMutatingCall ==
    [][ret'.op \in MutatingOperations =>
        /\ \/ /\ trees'[systemTree] = trees[systemTree]
              /\ AtMostOneCall(trees[versionTree], trees'[versionTree])
           \/ /\ trees'[versionTree] = trees[versionTree]
              /\ AtMostOneCall(trees[systemTree], trees'[systemTree])
        /\ ret'.readFailed => ret'.err # NoError /\ trees' = trees
        /\ ret'.err = ErrBackend => trees' = trees]_vars

\* An unversioned AddVersion whose key holds an unversioned node returned
\* the error of a failed read.
C32_Reached ==
    /\ ret.op = "AddVersion"
    /\ ret.readFailed
    /\ ret.err = ErrBackend
    /\ \E n \in trees[versionTree] : Has(n.meta, isUnversionedKV)

(***************************************************************************)
(* Overwriting the unversioned object                                      *)
(***************************************************************************)

\* The nodes under a node.
ChildrenOf(tree, nodeID) == {n \in tree : n.parent = nodeID}

\* What GetObjectTagging and GetLock may return for a node.
TaggingOf(tree, nodeID) ==
    {GetObjectTagging(stream) : stream \in getSubTree(tree, nodeID, 1)}
LockOf(tree, nodeID) ==
    {GetLock(stream) : stream \in getSubTree(tree, nodeID, 1)}

\* The keys of the metadata of an unversioned version.
OverwrittenKeys(isDeleteMarker) ==
    {oidKV, fileNameKV, sizeKV, etagKV, isUnversionedKV}
        \cup (IF isDeleteMarker THEN {isDeleteMarkerKV, ownerKV, createdKV}
              ELSE {})

\* The node an unversioned AddVersion of the key moves.
Overwritten == getUnversioned(trees[versionTree], OverwriteKey).ID

\* C33: when AddVersion with IsUnversioned = true takes the move branch, the
\* tag node and the lock node under the node are still its children
\* afterwards, GetObjectTagging and GetLock on the overwritten version
\* return the tags and the lock of the content before, and the metadata of
\* the node itself is that of the new version and nothing else: the OID is
\* the new one and the keys of a delete marker are there only if the new
\* version is one.
C33_OverwriteKeepsChildren ==
    [][\A objID \in OverwriteOIDs, isDeleteMarker \in BOOLEAN :
        (AddVersion(OverwriteKey, objID, TRUE, isDeleteMarker)
            /\ ret'.call = "move") =>
        /\ ChildrenOf(trees'[versionTree], Overwritten)
                = ChildrenOf(trees[versionTree], Overwritten)
        /\ TaggingOf(trees'[versionTree], Overwritten)
                = TaggingOf(trees[versionTree], Overwritten)
        /\ LockOf(trees'[versionTree], Overwritten)
                = LockOf(trees[versionTree], Overwritten)
        /\ \A n \in trees'[versionTree] :
            n.id = Overwritten =>
                /\ n.meta[oidKV] = objID
                /\ DOMAIN n.meta = OverwrittenKeys(isDeleteMarker)
                /\ n.parent = 0]_vars

\* The unversioned object was overwritten at the last tick by an object
\* that is no delete marker, its node holding a tag node and a lock node.
C33_Reached ==
    /\ ret.op = "AddVersion"
    /\ ret.call = "move"
    /\ \E n \in trees[versionTree] :
        /\ Has(n.meta, isUnversionedKV)
        /\ ~Has(n.meta, isDeleteMarkerKV)
        /\ n.ts = MaxClock
        /\ \E t \in ChildrenOf(trees[versionTree], n.id) : Has(t.meta, isTagKV)
        /\ \E l \in ChildrenOf(trees[versionTree], n.id) : Has(l.meta, isLockKV)

(***************************************************************************)
(* What the puts of the pointers report                                    *)
(***************************************************************************)

\* The file name of a pointer.
PointerName(s) == IF s = "cors" THEN corsFilename ELSE notifConfFileName

\* C35: PutBucketCORS and PutNotificationConfigurationNode report what they
\* replaced: the first put on a bucket adds the node and returns an empty
\* OID with ErrNoNodeToRemove; every later put moves the node in place and
\* returns the OID the previous put stored, so that across any sequence of
\* puts each stored OID is returned once as the old one, except the one
\* now stored; DeleteBucketCORS returns the OID now stored.
C35_PutReportsReplaced ==
    /\ (ret.op = "put" /\ ret.earlier = <<>>) =>
        /\ ret.err = ErrNoNodeToRemove /\ ret.oid = emptyOID
        /\ RootNamed(ret.before, PointerName(ret.pointer)) = {}
        /\ Cardinality(RootNamed(trees[systemTree],
                                 PointerName(ret.pointer))) = 1
        /\ IDs(trees[systemTree]) \ IDs(ret.before)
                = RootNamed(trees[systemTree], PointerName(ret.pointer))
    /\ (ret.op = "put" /\ ret.earlier # <<>>) =>
        /\ ret.err = NoError
        /\ ret.oid = ret.earlier[Len(ret.earlier)]
        /\ IDs(trees[systemTree]) = IDs(ret.before)
        /\ RootNamed(trees[systemTree], PointerName(ret.pointer))
                = RootNamed(ret.before, PointerName(ret.pointer))
    /\ \A s \in DOMAIN hist.stored :
        /\ Len(hist.stored[s].olds) = Len(hist.stored[s].puts)
        /\ hist.stored[s].olds[1] = emptyOID
        /\ \A i \in 1..(Len(hist.stored[s].puts) - 1) :
                hist.stored[s].olds[i + 1] = hist.stored[s].puts[i]
        /\ GetSingleton(trees[systemTree], s).oid
                = hist.stored[s].puts[Len(hist.stored[s].puts)]
    /\ (ret.op = "delete" /\ ret.earlier # <<>>) =>
        /\ ret.err = NoError
        /\ ret.oid = ret.earlier[Len(ret.earlier)]

\* The CORS pointer was put three times, with x, y and x: the third put
\* returned y, and x and y were each returned once.
C35_Reached ==
    /\ ret.op = "put" /\ ret.pointer = "cors"
    /\ ret.earlier = << <<"x">>, <<"y">> >>
    /\ ret.objID = <<"x">>
    /\ ret.oid = <<"y">>
    /\ hist.stored["cors"].olds = <<emptyOID, <<"x">>, <<"y">> >>

\* The CORS pointer was deleted after two puts: the delete returned the OID
\* of the second.
C35_ReachedDelete ==
    /\ ret.op = "delete"
    /\ ret.earlier = << <<"x">>, <<"y">> >>
    /\ ret.oid = <<"y">>
    /\ RootNamed(trees[systemTree], corsFilename) = {}

(***************************************************************************)
(* Singletons put side by side                                             *)
(***************************************************************************)

\* The root of the system tree holds more than one node of singleton s.
Duplicated(s) ==
    Cardinality(RootNamed(trees[systemTree], Singletons[s])) > 1

\* The step is a put, made in one step, of singleton s.
PutOf(s) ==
    CASE s = "settings" -> DoPutSettingsNode(RaceSettings)
      [] s \in {"cors", "notifications"} -> DoPutPointer(s, RaceOID)
      [] s = "tagging" -> DoPutBucketTagging(RaceTagSet)

\* The step is the delete of singleton s; the settings and the
\* notification pointer have none.
DeleteOf(s) ==
    CASE s = "cors" -> DoDeleteBucketCORS
      [] s = "tagging" -> DoDeleteBucketTagging
      [] OTHER -> FALSE

\* C36: if the system tree holds more than one node with the FileName of a
\* singleton (two puts side by side that both found none and both added
\* lead there), every later get, put and delete of that singleton fails
\* with the 'found more than one node' error and issues no mutating call:
\* the tree is left as it was and the duplicate stays.
C36_SingletonLockout ==
    [][\A s \in RaceSingletons :
        Duplicated(s) =>
            /\ Cardinality(RootNamed(trees'[systemTree], Singletons[s])) > 1
            /\ (PutOf(s) \/ DeleteOf(s)) =>
                    /\ ret'.err = ErrMoreThanOneNode
                    /\ trees' = trees
            /\ DoGet(s) => ret'.out.err = ErrMoreThanOneNode
            /\ \A t \in Tasks :
                /\ LookupPut(t, s) =>
                        inflight'[t].found.err = ErrMoreThanOneNode
                /\ (IssuePut(t) /\ inflight[t].singleton = s
                        /\ inflight[t].found.err = ErrMoreThanOneNode) =>
                            /\ ret'.err = ErrMoreThanOneNode
                            /\ trees' = trees]_vars

\* Two puts of the settings raced and left two settings nodes, and a put
\* made after that failed.
C36_Reached ==
    /\ hist.raced
    /\ Duplicated("settings")
    /\ ret.op = "PutSettingsNode"
    /\ ret.err = ErrMoreThanOneNode
    /\ ret.before = trees[systemTree]

\* The CORS pointer was duplicated and DeleteBucketCORS failed.
C36_ReachedDelete ==
    /\ hist.raced
    /\ Duplicated("cors")
    /\ ret.op = "DeleteBucketCORS"
    /\ ret.err = ErrMoreThanOneNode
    /\ ret.before = trees[systemTree]

\* A put whose lookup was made among the duplicates was issued and failed.
C36_ReachedIssued ==
    /\ Duplicated("cors")
    /\ ret.op = "put" /\ ret.singleton = "cors"
    /\ ret.err = ErrMoreThanOneNode
    /\ ret.before = trees[systemTree]

(***************************************************************************)
(* The credential cache                                                    *)
(***************************************************************************)

\* C37: GetBox(addr) returns the cached box without reading from NeoFS
\* when the cache holds an entry for addr; on a miss it reads and decodes
\* the access box, stores the result in the cache and returns it, so that
\* a second GetBox(addr) after a successful one makes no ReadObjectPayload
\* call while the entry remains cached; a GetBox that fails (read,
\* unmarshal, decryption or cache-put error) returns no box.
C37_CredentialCache ==
    [][\A addr \in Addresses, readFailed \in BOOLEAN, putFailed \in BOOLEAN :
        GetBox(addr, readFailed, putFailed) =>
            /\ addr \in DOMAIN cache =>
                /\ ret'.err = NoError
                /\ ret'.box = cache[addr]
                /\ ret'.reads = 0
                /\ cache' = cache
            /\ (addr \notin DOMAIN cache /\ ret'.err = NoError) =>
                /\ ret'.reads = 1
                /\ ret'.box = Objects[addr].box
                /\ OwnKey \in Objects[addr].gates
                /\ cache' = (addr :> ret'.box) @@ cache
            /\ (ret.op = "GetBox" /\ ret.addr = addr /\ ret.err = NoError) =>
                /\ ret'.err = NoError
                /\ ret'.box = ret.box
                /\ ret'.reads = 0
            /\ (addr \notin DOMAIN cache
                    /\ (readFailed \/ putFailed \/ addr \notin DOMAIN Objects
                            \/ ~Objects[addr].marshalled
                            \/ OwnKey \notin Objects[addr].gates)) =>
                    ret'.err # NoError
            /\ ret'.err # NoError =>
                /\ ret'.box = NilBox
                /\ cache' = cache]_vars

\* A GetBox that read the payload and stored the box was followed by a
\* GetBox of the same address, which read nothing, ReadObjectPayload
\* failing or not.
C37_Reached ==
    /\ ret.op = "GetBox" /\ ret.addr = "a1"
    /\ ret.err = NoError /\ ret.box = "box1"
    /\ ret.reads = 0
    /\ ret.readFailed
    /\ "a1" \in DOMAIN ret.before /\ "a2" \in DOMAIN ret.before

\* A GetBox failed at the cache put, after the read and the decoding.
C37_ReachedPutFailed ==
    /\ ret.op = "GetBox" /\ ret.addr = "a2"
    /\ ret.err = ErrCachePut /\ ret.box = NilBox
    /\ ret.reads = 1
    /\ "a2" \notin DOMAIN cache

\* A GetBox failed at the box of the key: the access box was made for
\* another key.
C37_ReachedNoGate ==
    /\ ret.op = "GetBox" /\ ret.addr = "a4" /\ ret.err = ErrNoGate

====
